---- MODULE Spec2Model ----
(***************************************************************************)
(* A model of the Busy Beaver search tools: the single-machine simulators  *)
(* of tools/simulate_pool.py and tools/simulate_gpu.py, and the resumable  *)
(* pool runner simulate_pool with its results log, checkpoint file and     *)
(* long-runner pool; and the ruleset generators of                         *)
(* tools/ruleset_generator.py and tools/parallel_ruleset_generator.py with *)
(* the index file and the block store they write.                          *)
(*                                                                         *)
(* The specifications share the variables:                                 *)
(*   SimSpec  one simulator running one rule table, one loop iteration per *)
(*            step;                                                        *)
(*   Spec     the pool runner: runs, batches, crashes, I/O failures,       *)
(*            resumption;                                                  *)
(*   GenSpec  generation runs into one case folder: the sequential         *)
(*            generator, the partitioned workers, the GPU kernel with its  *)
(*            host pass;                                                   *)
(*   BatchSpec the GPU batch driver simulate_gpu with run_batch;           *)
(*   EvalSpec the kernel simulate_batch launched by evaluate_batch;        *)
(*   TmSpec   one TuringMachine object under add_transition, step, run and *)
(*            reset.                                                       *)
(*   FairSpec is Spec with the fairness of the batch loop.                 *)
(***************************************************************************)
EXTENDS Integers, Sequences, FiniteSets, TLC

VARIABLES
    \* ---- run parameters, shared by the specifications
    max_steps,          \* step budget per machine
    tape_size,          \* number of tape cells
    states,             \* the case s<states>_k<symbols> the tables belong to
    symbols,
    \* ---- one simulator run (SimSpec)
    kind,               \* which simulator: "cpu", "kernel", "batch_kernel",
                        \*   "simulate_batch" (EvalSpec), or "none"
    rules,              \* the rule table: a sequence of <<new_symbol, move_dir, new_state>>
    sim,                \* the simulator's locals: [tape, head, state, steps, halted,
                        \*   new_symbol, status], status "running", "returned" or "raised"
    moves,              \* history: loop bodies run to their end (Moves applied)
    halt_read,          \* history: a Halt cell has been read
    \* ---- the pool runner (Spec)
    batch_size,
    use_gpu,
    pool,               \* pools/<pool_name>.txt of the current pool name
    results_log,        \* results/<pool_name>/<output_name>.jsonl on disk
    checkpoint_file,    \* results/<pool_name>/<output_name>_checkpoint.json on disk
    long_runners,       \* pools/long_runners.txt on disk
    pc,                 \* position of the runner process
    completed,          \* in-memory list
    pending_machines,   \* in-memory list
    batch_start,
    batch_pos,          \* index into the current batch of the next machine
    batch_results,      \* in-memory buffer
    \* ---- history of the pool runner
    pool_name,          \* number of the current pool name (fresh names count up)
    crashes,            \* interruptions (the process killed) so far
    io_failures,        \* failed results / checkpoint writes so far
    rerun,              \* the current run was started right after a completed run
                        \*   of the same pool and output name
    loaded,             \* the checkpoint ids the current run loaded at start
    attempted,          \* ids the current run has taken from its batches, in order
    flushed,            \* ids whose ResultEntry the current run has flushed to disk
    \* ---- the generators (GenSpec)
    strategy,           \* "sequential", "partitioned", "gpu", or "none"
    num_workers,
    index_file,         \* rulesets/<case>/index.jsonl: the entries in file order
    blocks,             \* rulesets/<case>/blocks: hash -> the block file
    workers,            \* per generating process: its chunk and locals
    validity_flags,     \* the kernel's output buffers, copied to the host
    out_rulesets,
    runs,               \* history: generation runs started on the case folder
    \* ---- the GPU batch driver simulate_gpu (BatchSpec)
    machines,           \* the index entries of the case, each with its block's table
    gpu_batch_size,
    gpu_pc,             \* position of the driver: "idle", "load" or "done"
    gpu_pos,            \* machines taken from the index so far
    gpu_batch,          \* in-memory list of rule tables
    gpu_batch_ids,      \* in-memory list of their ids
    results_file,       \* results/<case>/simulation_results.jsonl on disk
    \* ---- history of the kernel launches (GenSpec, BatchSpec)
    kernel_writes,      \* the last launch: the length of its output buffers and
                        \*   the <<thread index, slot>> pairs its threads wrote
    \* ---- one TuringMachine object of simulator/turing_machine.py (TmSpec)
    tm,                 \* its fields transitions, tape, head, current_state, halted
    tm_moved,           \* history: passes of step() since the constructor or reset()
    tm_returned         \* history: the last call of run(): its max_steps, the steps
                        \*   it returned, halted at its end, and whether it was
                        \*   the first run of a machine built from the whole table

simVars == <<kind, rules, sim, moves, halt_read>>
poolVars == <<batch_size, use_gpu, pool, results_log, checkpoint_file, long_runners, pc,
              completed, pending_machines, batch_start, batch_pos, batch_results,
              pool_name, crashes, io_failures, rerun, loaded, attempted, flushed>>
genVars == <<strategy, num_workers, index_file, blocks, workers, validity_flags,
             out_rulesets, runs>>
driverVars == <<machines, gpu_batch_size, gpu_pc, gpu_pos, gpu_batch, gpu_batch_ids,
                results_file>>
tmVars == <<tm, tm_moved, tm_returned>>
vars == <<max_steps, tape_size, states, symbols, simVars, poolVars, genVars, driverVars,
          kernel_writes, tmVars>>

----------------------------------------------------------------------------
\* Bounds of the model

SimMaxSteps == 3
SimMaxTape == 2
MaxFaults == 1
MaxPoolNames == 2

\* The run parameters the pool runner is started with.
StepBudgets == {0, 5}
TapeSizes == {2}
BatchSizes == {1, 2}

----------------------------------------------------------------------------
\* Rule tables

Halt == <<-1, 0, -1>>

\* generate_transition_options: every Move, then the halting option.
generate_transition_options(num_states, num_symbols) ==
    { <<new_symbol, dir_bit, new_state>> :
          new_symbol \in 0..(num_symbols - 1), dir_bit \in {0, 1},
          new_state \in 0..(num_states - 1) } \cup {Halt}

\* The rule tables of a case: one option per (state, symbol) cell.
Tables(num_states, num_symbols) ==
    [1..(num_states * num_symbols) -> generate_transition_options(num_states, num_symbols)]

\* The (states, symbols) cases simulated with every table of the case.
SimShapes == {<<1, 2>>, <<2, 2>>, <<1, 3>>, <<2, 1>>}

\* Tables of the case s2_k3 (six cells), built from three of its options.
WideOptions == {Halt, <<1, 1, 1>>, <<2, 0, 0>>}
WideTables == [1..6 -> WideOptions]

\* Never halts: every reachable cell writes 0, moves right and stays in state 0.
LoopTable == << <<0, 1, 0>>, <<0, 1, 0>>, Halt, Halt >>
\* The 2-state 2-symbol table [[1,1,1],[1,0,0],[0,1,1],[-1,0,-1]].
HaltTable == << <<1, 1, 1>>, <<1, 0, 0>>, <<0, 1, 1>>, Halt >>
\* A 2-state 1-symbol table (case s2_k1): two cells only.
OneSymbolTable == << <<0, 1, 1>>, Halt >>

----------------------------------------------------------------------------
\* The simulators.  A configuration is a record
\*   [tape, head, state, steps, halted, new_symbol, status]
\* tape is [0..tape_size-1 -> symbol]; new_symbol is the local of that name (0
\* before the first cell is read).

ZeroTape(n) == [i \in 0..(n - 1) |-> 0]

StartCfg(n) ==
    [tape |-> ZeroTape(n), head |-> n \div 2, state |-> 0, steps |-> 0,
     halted |-> FALSE, new_symbol |-> 0, status |-> "running"]

\* list[i] of Python: a negative index counts from the end, an index outside
\* the list raises IndexError.
PyIndexOk(len, i) == (-len) <= i /\ i < len
PyIndex(len, i) == IF i < 0 THEN len + i ELSE i

\* One evaluation of the while test and, if it passes, of the loop body of
\* simulate_single_cpu.
cpu_loop_mutant_no_clamp(rls, c, maxsteps, n) ==
    IF ~(c.steps < maxsteps) THEN [c EXCEPT !.status = "returned", !.halted = FALSE]
    ELSE IF ~PyIndexOk(n, c.head) THEN [c EXCEPT !.status = "raised"]
    ELSE
      LET symbol == c.tape[PyIndex(n, c.head)]
          rule_idx == c.state * 2 + symbol
      IN  IF ~PyIndexOk(Len(rls), rule_idx) THEN [c EXCEPT !.status = "raised"]
          ELSE
            LET cell == rls[PyIndex(Len(rls), rule_idx) + 1]
            IN  IF cell[1] = -1
                THEN [c EXCEPT !.new_symbol = cell[1], !.status = "returned",
                               !.halted = TRUE]
                ELSE [c EXCEPT !.new_symbol = cell[1],
                               !.tape[PyIndex(n, c.head)] = cell[1],
                               !.head = c.head + (IF cell[2] = 0 THEN -1 ELSE 1),
                               !.state = cell[3],
                               !.steps = c.steps + 1]

cpu_loop_mutant_halt_counts(rls, c, maxsteps, n) ==
    IF ~(c.steps < maxsteps) THEN [c EXCEPT !.status = "returned", !.halted = FALSE]
    ELSE IF ~PyIndexOk(n, c.head) THEN [c EXCEPT !.status = "raised"]
    ELSE
      LET symbol == c.tape[PyIndex(n, c.head)]
          rule_idx == c.state * 2 + symbol
      IN  IF ~PyIndexOk(Len(rls), rule_idx) THEN [c EXCEPT !.status = "raised"]
          ELSE
            LET cell == rls[PyIndex(Len(rls), rule_idx) + 1]
                h0 == c.head + (IF cell[2] = 0 THEN -1 ELSE 1)
                h1 == IF h0 < 0 THEN 0 ELSE IF h0 >= n THEN n - 1 ELSE h0
            IN  IF cell[1] = -1
                THEN [c EXCEPT !.new_symbol = cell[1], !.status = "returned",
                               !.halted = TRUE, !.steps = c.steps + 1]
                ELSE [c EXCEPT !.new_symbol = cell[1],
                               !.tape[PyIndex(n, c.head)] = cell[1],
                               !.head = h1,
                               !.state = cell[3],
                               !.steps = c.steps + 1]

cpu_loop(rls, c, maxsteps, n) ==
    IF ~(c.steps < maxsteps) THEN [c EXCEPT !.status = "returned", !.halted = FALSE]
    ELSE IF ~PyIndexOk(n, c.head) THEN [c EXCEPT !.status = "raised"]
    ELSE
      LET symbol == c.tape[PyIndex(n, c.head)]
          rule_idx == c.state * 2 + symbol
      IN  IF ~PyIndexOk(Len(rls), rule_idx) THEN [c EXCEPT !.status = "raised"]
          ELSE
            LET cell == rls[PyIndex(Len(rls), rule_idx) + 1]
                h0 == c.head + (IF cell[2] = 0 THEN -1 ELSE 1)
                h1 == IF h0 < 0 THEN 0 ELSE IF h0 >= n THEN n - 1 ELSE h0
            IN  IF cell[1] = -1
                THEN [c EXCEPT !.new_symbol = cell[1], !.status = "returned",
                               !.halted = TRUE]
                ELSE [c EXCEPT !.new_symbol = cell[1],
                               !.tape[PyIndex(n, c.head)] = cell[1],
                               !.head = h1,
                               !.state = cell[3],
                               !.steps = c.steps + 1]


\* A read outside a device array does not fault: it yields whatever lies
\* there.  The value read is a parameter (oob) that the callers choose freely.
OobCells == {Halt, <<0, 0, 0>>, <<1, 1, 0>>}

\* One evaluation of the while test and loop body of
\* simulate_one_machine_kernel (the break leaves the loop, after which
\* steps_taken[0] is written: status "returned").
kernel_loop(rls, c, maxsteps, n, oob) ==
    IF ~(c.steps < maxsteps) THEN [c EXCEPT !.status = "returned"]
    ELSE IF c.head \notin 0..(n - 1) THEN [c EXCEPT !.status = "undefined"]
    ELSE
      LET symbol == c.tape[c.head]
          rule_idx == c.state * 2 + symbol
          cell == IF rule_idx \in 0..(Len(rls) - 1) THEN rls[rule_idx + 1] ELSE oob
          h0 == c.head + (IF cell[2] = 0 THEN -1 ELSE 1)
          h1 == IF h0 < 0 THEN 0 ELSE IF h0 >= n THEN n - 1 ELSE h0
      IN  IF cell[1] = -1
          THEN [c EXCEPT !.new_symbol = cell[1], !.status = "returned", !.halted = TRUE]
          ELSE [c EXCEPT !.new_symbol = cell[1],
                         !.tape[c.head] = cell[1],
                         !.head = h1,
                         !.state = cell[3],
                         !.steps = c.steps + 1]

\* cuda.local.array(512, ...) of simulate_machines_kernel
LocalTapeCapacity == 512

\* One evaluation of the while test and loop body of simulate_machines_kernel
\* for one thread idx; rls is rulesets[idx].  A tape_size above the local
\* array's capacity makes the zeroing loop write outside the array.
batch_kernel_loop(rls, c, maxsteps, n, oob) ==
    IF n > LocalTapeCapacity THEN [c EXCEPT !.status = "undefined"]
    ELSE IF ~(c.steps < maxsteps) THEN [c EXCEPT !.status = "returned"]
    ELSE IF c.head \notin 0..(n - 1) THEN [c EXCEPT !.status = "undefined"]
    ELSE
      LET symbol == c.tape[c.head]
          rule_idx == c.state * 2 + symbol
          cell == IF rule_idx \in 0..(Len(rls) - 1) THEN rls[rule_idx + 1] ELSE oob
          h0 == c.head + (IF cell[2] = 0 THEN -1 ELSE 1)
          h1 == IF h0 < 0 THEN 0 ELSE IF h0 >= n THEN n - 1 ELSE h0
      IN  IF cell[1] = -1
          THEN [c EXCEPT !.new_symbol = cell[1], !.status = "returned", !.halted = TRUE]
          ELSE [c EXCEPT !.new_symbol = cell[1],
                         !.tape[c.head] = cell[1],
                         !.head = h1,
                         !.state = cell[3],
                         !.steps = c.steps + 1]

\* The whole call: the loop run from the start configuration to its end.
RECURSIVE cpu_run(_, _, _, _)
cpu_run(rls, c, maxsteps, n) ==
    IF c.status # "running" THEN c ELSE cpu_run(rls, cpu_loop(rls, c, maxsteps, n), maxsteps, n)

simulate_single_cpu(rls, maxsteps, n) == cpu_run(rls, StartCfg(n), maxsteps, n)

RECURSIVE kernel_run(_, _, _, _, _)
kernel_run(rls, c, maxsteps, n, oob) ==
    IF c.status # "running" THEN c
    ELSE kernel_run(rls, kernel_loop(rls, c, maxsteps, n, oob), maxsteps, n, oob)

\* simulate_single_gpu: the kernel on one machine, then steps_taken[0] and
\* halted_flag[0] read back.
simulate_single_gpu(rls, maxsteps, n, oob) == kernel_run(rls, StartCfg(n), maxsteps, n, oob)

RECURSIVE batch_kernel_run(_, _, _, _, _)
batch_kernel_run(rls, c, maxsteps, n, oob) ==
    IF c.status # "running" THEN c
    ELSE batch_kernel_run(rls, batch_kernel_loop(rls, c, maxsteps, n, oob), maxsteps, n, oob)

\* run_batch on the one-table batch [rls]: thread 0 of simulate_machines_kernel,
\* then steps_taken[0] and halted_flags[0] read back.
run_batch(rls, maxsteps, n, oob) == batch_kernel_run(rls, StartCfg(n), maxsteps, n, oob)

----------------------------------------------------------------------------
\* SimSpec: one simulator on one table, one loop iteration per step.

\* No generator runs: the case folder is not part of the state.
GenIdle ==
    /\ strategy = "none" /\ num_workers = 0 /\ index_file = <<>> /\ blocks = <<>>
    /\ workers = <<>> /\ validity_flags = <<>> /\ out_rulesets = <<>> /\ runs = 0

DriverIdle ==
    /\ machines = <<>> /\ gpu_batch_size = 1 /\ gpu_pc = "idle" /\ gpu_pos = 0
    /\ gpu_batch = <<>> /\ gpu_batch_ids = <<>> /\ results_file = <<>>

NoLaunch == kernel_writes = [len |-> 0, slots |-> {}]

\* A TuringMachine object as its constructor leaves it.
TmNew ==
    [transitions |-> <<>>, tape |-> <<>>, head |-> 0, current_state |-> 0, halted |-> FALSE]

NoRun == [max_steps |-> 0, steps |-> -1, halted |-> FALSE, whole |-> FALSE]

TmIdle == tm = TmNew /\ tm_moved = 0 /\ tm_returned = NoRun

PoolIdle ==
    /\ batch_size = 1 /\ use_gpu = FALSE /\ pool = <<>> /\ results_log = <<>>
    /\ checkpoint_file = [state |-> "absent", ids |-> <<>>]
    /\ long_runners = <<>> /\ pc = "idle" /\ completed = <<>>
    /\ pending_machines = <<>> /\ batch_start = 0 /\ batch_pos = 1
    /\ batch_results = <<>> /\ pool_name = 1 /\ crashes = 0
    /\ io_failures = 0 /\ rerun = FALSE
    /\ loaded = <<>> /\ attempted = <<>> /\ flushed = <<>>

\* The runs started: every table of the small cases and the s2_k3 tables on
\* short tapes with small budgets; the 2-state 2-symbol table
\* [[1,1,1],[1,0,0],[0,1,1],[-1,0,-1]] with tape_size = 4 and max_steps = 10;
\* and a batch kernel launched with a tape one cell longer than its local
\* array.
SimInit ==
    /\ kind \in {"cpu", "kernel", "batch_kernel"}
    /\ \/ /\ \E shape \in SimShapes :
                /\ states = shape[1] /\ symbols = shape[2]
                /\ rules \in Tables(shape[1], shape[2])
          /\ tape_size \in 1..SimMaxTape
          /\ max_steps \in 0..SimMaxSteps
       \/ /\ states = 2 /\ symbols = 3
          /\ rules \in WideTables
          /\ tape_size \in 1..SimMaxTape
          /\ max_steps \in 0..SimMaxSteps
       \/ /\ states = 2 /\ symbols = 2
          /\ rules = HaltTable
          /\ tape_size = 4
          /\ max_steps = 10
       \/ /\ kind = "batch_kernel"
          /\ states = 2 /\ symbols = 2
          /\ rules \in {HaltTable, LoopTable}
          /\ tape_size = LocalTapeCapacity + 1
          /\ max_steps \in {0, 2}
    /\ sim = StartCfg(tape_size)
    /\ moves = 0
    /\ halt_read = FALSE
    /\ PoolIdle
    /\ GenIdle
    /\ DriverIdle /\ NoLaunch /\ TmIdle

\* The history variables after an iteration that took c to d: the body ran to
\* its end iff the loop goes on; a cell was read iff new_symbol was assigned,
\* which every iteration that passes the while test does.
History(c, d) ==
    /\ moves' = IF d.status = "running" THEN moves + 1 ELSE moves
    /\ halt_read' = (halt_read \/ (c.steps < max_steps /\ d.new_symbol = -1))

CpuStep ==
    /\ kind = "cpu" /\ sim.status = "running"
    /\ sim' = cpu_loop(rules, sim, max_steps, tape_size)
    /\ History(sim, sim')
    /\ UNCHANGED <<max_steps, tape_size, states, symbols, kind, rules, poolVars, genVars,
                   driverVars, kernel_writes, tmVars>>

KernelStep ==
    /\ kind = "kernel" /\ sim.status = "running"
    /\ \E oob \in OobCells : sim' = kernel_loop(rules, sim, max_steps, tape_size, oob)
    /\ History(sim, sim')
    /\ UNCHANGED <<max_steps, tape_size, states, symbols, kind, rules, poolVars, genVars,
                   driverVars, kernel_writes, tmVars>>

BatchKernelStep ==
    /\ kind = "batch_kernel" /\ sim.status = "running"
    /\ \E oob \in OobCells : sim' = batch_kernel_loop(rules, sim, max_steps, tape_size, oob)
    /\ History(sim, sim')
    /\ UNCHANGED <<max_steps, tape_size, states, symbols, kind, rules, poolVars, genVars,
                   driverVars, kernel_writes, tmVars>>

SimNext == CpuStep \/ KernelStep \/ BatchKernelStep

SimSpec == SimInit /\ [][SimNext]_vars

----------------------------------------------------------------------------
\* The rule store the pool runner reads: rulesets/<case>/index.jsonl and
\* rulesets/<case>/blocks.  It is written by the generator before any pool run
\* and only read here.

IndexFile ==
    << [machine_id |-> "TM_000000", ruleset_hash |-> "h_loop"],
       [machine_id |-> "TM_000001", ruleset_hash |-> "h_halt"],
       [machine_id |-> "TM_000002", ruleset_hash |-> "h_one"],
       [machine_id |-> "TM_000003", ruleset_hash |-> "h_lost"] >>

\* The blocks on disk, by hash; no block exists for "h_lost".
BlockStore ==
    [h \in {"h_loop", "h_halt", "h_one"} |->
        CASE h = "h_loop" -> LoopTable
          [] h = "h_halt" -> HaltTable
          [] h = "h_one" -> OneSymbolTable]

\* The ids a pool file may list.
PoolIds == {"TM_000000", "TM_000001", "TM_000002", "TM_000003"}

SeqsUpTo(S, n) == UNION { [1..k -> S] : k \in 0..n }
Range(seq) == { seq[i] : i \in 1..Len(seq) }
Count(x, seq) == Cardinality({ i \in 1..Len(seq) : seq[i] = x })
IsPrefix(a, b) == Len(a) <= Len(b) /\ SubSeq(b, 1, Len(a)) = a
Prefix(seq, k) == SubSeq(seq, 1, k)
MinOf(S) == CHOOSE x \in S : \A y \in S : x <= y

\* The pool files run: every list of at most two ids, repeated ids included.
PoolFiles == SeqsUpTo(PoolIds, 2)

\* load_ruleset: the first index entry of the id, then its block.  A missing
\* entry raises ValueError, a missing block FileNotFoundError.
load_ruleset(machine_id) ==
    LET hits == { i \in 1..Len(IndexFile) : IndexFile[i].machine_id = machine_id }
    IN  IF hits = {} THEN [raised |-> "ValueError", rules |-> <<>>]
        ELSE LET target == IndexFile[MinOf(hits)]
             IN  IF target.ruleset_hash \notin DOMAIN BlockStore
                 THEN [raised |-> "FileNotFoundError", rules |-> <<>>]
                 ELSE [raised |-> "", rules |-> BlockStore[target.ruleset_hash]]

\* load_checkpoint: [] without a file, the "completed" list of a complete
\* file; a file cut short is not JSON and json.load raises.
load_checkpoint(file) ==
    IF file.state = "absent" THEN [raised |-> FALSE, completed |-> <<>>]
    ELSE IF file.state = "valid" THEN [raised |-> FALSE, completed |-> file.ids]
    ELSE [raised |-> TRUE, completed |-> <<>>]

\* pending_machines = [m for m in all_machines if m not in completed]
PendingOf_mutant_no_filter(all_machines, done) == all_machines

PendingOf(all_machines, done) ==
    LET NotDone(m) == m \notin Range(done) IN SelectSeq(all_machines, NotDone)

\* batch = pending_machines[batch_start:batch_start + batch_size]
BatchOf_mutant_rest(pending, start, size) == SubSeq(pending, start + 1, Len(pending))

BatchOf(pending, start, size) ==
    SubSeq(pending, start + 1, IF start + size < Len(pending) THEN start + size ELSE Len(pending))

\* The try body's simulation of one loaded table: the configuration in which
\* the simulator ended.
simulate(rls, oob) ==
    IF use_gpu THEN simulate_single_gpu(rls, max_steps, tape_size, oob)
    ELSE simulate_single_cpu(rls, max_steps, tape_size)

\* if not halted and steps >= max_steps
PromoteCond_mutant_always(stepcount, halt) == TRUE

PromoteCond(stepcount, halt) == ~halt /\ stepcount >= max_steps

\* promote_long_runner: one more line at the end of pools/long_runners.txt
promote_long_runner_mutant_dedup(file, machine_id) ==
    IF machine_id \in Range(file) THEN file ELSE Append(file, machine_id)

promote_long_runner(file, machine_id) == Append(file, machine_id)

Memory0 ==
    /\ completed' = <<>> /\ pending_machines' = <<>> /\ batch_start' = 0
    /\ batch_pos' = 1 /\ batch_results' = <<>>

----------------------------------------------------------------------------
\* Spec: the pool runner

Init ==
    /\ max_steps \in StepBudgets
    /\ tape_size \in TapeSizes
    /\ batch_size \in BatchSizes
    /\ use_gpu \in BOOLEAN
    /\ pool \in PoolFiles
    /\ results_log = <<>>
    /\ checkpoint_file = [state |-> "absent", ids |-> <<>>]
    /\ long_runners = <<>>
    /\ pc = "idle"
    /\ completed = <<>> /\ pending_machines = <<>> /\ batch_start = 0
    /\ batch_pos = 1 /\ batch_results = <<>>
    /\ pool_name = 1 /\ crashes = 0 /\ io_failures = 0 /\ rerun = FALSE
    /\ loaded = <<>> /\ attempted = <<>> /\ flushed = <<>>
    /\ states = 2 /\ symbols = 2
    /\ kind = "none" /\ rules = <<>> /\ sim = StartCfg(1) /\ moves = 0
    /\ halt_read = FALSE
    /\ GenIdle
    /\ DriverIdle /\ NoLaunch /\ TmIdle

Frozen == UNCHANGED <<max_steps, tape_size, states, symbols, simVars, batch_size,
                      use_gpu, pool, genVars, driverVars, kernel_writes, tmVars>>

\* simulate_pool from its call to the first batch: the pool and the checkpoint
\* are loaded, pending computed, the results file opened for append.  With
\* nothing pending the batch loop does not run and the function returns.
Start_mutant_open_w ==
    /\ pc \in {"idle", "done", "crashed", "aborted"}
    /\ LET ck == load_checkpoint(checkpoint_file)
           pend == PendingOf(pool, ck.completed)
       IN  /\ loaded' = checkpoint_file.ids
           /\ attempted' = <<>> /\ flushed' = <<>>
           /\ rerun' = (pc = "done")
           /\ IF ck.raised
              THEN pc' = "aborted" /\ Memory0 /\ UNCHANGED results_log
              ELSE /\ completed' = ck.completed
                   /\ pending_machines' = pend
                   /\ batch_start' = 0 /\ batch_pos' = 1 /\ batch_results' = <<>>
                   /\ results_log' = <<>>
                   /\ pc' = IF pend = <<>> THEN "done" ELSE "simulate"
    /\ UNCHANGED <<checkpoint_file, long_runners, pool_name, crashes, io_failures>>
    /\ Frozen

Start ==
    /\ pc \in {"idle", "done", "crashed", "aborted"}
    /\ LET ck == load_checkpoint(checkpoint_file)
           pend == PendingOf(pool, ck.completed)
       IN  /\ loaded' = checkpoint_file.ids
           /\ attempted' = <<>> /\ flushed' = <<>>
           /\ rerun' = (pc = "done")
           /\ IF ck.raised
              THEN pc' = "aborted" /\ Memory0
              ELSE /\ completed' = ck.completed
                   /\ pending_machines' = pend
                   /\ batch_start' = 0 /\ batch_pos' = 1 /\ batch_results' = <<>>
                   /\ pc' = IF pend = <<>> THEN "done" ELSE "simulate"
    /\ UNCHANGED <<results_log, checkpoint_file, long_runners, pool_name, crashes,
                   io_failures>>
    /\ Frozen

\* One pass of "for machine_id in batch": load, simulate, buffer the entry,
\* mark completed, promote; an exception of the try body is caught and only
\* logged.
SimulateMachine_mutant_no_catch ==
    /\ pc = "simulate"
    /\ LET batch == BatchOf(pending_machines, batch_start, batch_size)
           machine_id == batch[batch_pos]
           ld == load_ruleset(machine_id)
       IN  /\ attempted' = Append(attempted, machine_id)
           /\ \E oob \in OobCells :
               LET c == simulate(ld.rules, oob)
                   ok == ld.raised = "" /\ c.status = "returned"
               IN  IF ok
                   THEN /\ batch_results' = Append(batch_results,
                               [machine_id |-> machine_id, steps_taken |-> c.steps,
                                halted |-> c.halted])
                        /\ completed' = Append(completed, machine_id)
                        /\ long_runners' = IF PromoteCond(c.steps, c.halted)
                                           THEN promote_long_runner(long_runners, machine_id)
                                           ELSE long_runners
                        /\ batch_pos' = batch_pos + 1
                        /\ pc' = IF batch_pos + 1 > Len(batch) THEN "write" ELSE "simulate"
                        /\ UNCHANGED <<pending_machines, batch_start>>
                   ELSE /\ pc' = "aborted" /\ Memory0
                        /\ UNCHANGED long_runners
    /\ UNCHANGED <<results_log, checkpoint_file, pool_name, crashes, io_failures, rerun,
                   loaded, flushed>>
    /\ Frozen

SimulateMachine ==
    /\ pc = "simulate"
    /\ LET batch == BatchOf(pending_machines, batch_start, batch_size)
           machine_id == batch[batch_pos]
           ld == load_ruleset(machine_id)
       IN  /\ attempted' = Append(attempted, machine_id)
           /\ batch_pos' = batch_pos + 1
           /\ pc' = IF batch_pos + 1 > Len(batch) THEN "write" ELSE "simulate"
           /\ \E oob \in OobCells :
               LET c == simulate(ld.rules, oob)
                   ok == ld.raised = "" /\ c.status = "returned"
               IN  IF ok
                   THEN /\ batch_results' = Append(batch_results,
                               [machine_id |-> machine_id, steps_taken |-> c.steps,
                                halted |-> c.halted])
                        /\ completed' = Append(completed, machine_id)
                        /\ long_runners' = IF PromoteCond(c.steps, c.halted)
                                           THEN promote_long_runner(long_runners, machine_id)
                                           ELSE long_runners
                   ELSE UNCHANGED <<batch_results, completed, long_runners>>
    /\ UNCHANGED <<results_log, checkpoint_file, pending_machines, batch_start, pool_name,
                   crashes, io_failures, rerun, loaded, flushed>>
    /\ Frozen

EntryIds(entries) == [i \in 1..Len(entries) |-> entries[i].machine_id]

\* The bulk write: every buffered entry written, then results_fh.flush().
WriteResults_mutant_no_flush ==
    /\ pc = "write"
    /\ pc' = "checkpoint"
    /\ UNCHANGED <<results_log, flushed, checkpoint_file, long_runners, completed,
                   pending_machines, batch_start, batch_pos, batch_results, pool_name,
                   crashes, io_failures, rerun, loaded, attempted>>
    /\ Frozen

WriteResults ==
    /\ pc = "write"
    /\ results_log' = results_log \o batch_results
    /\ flushed' = flushed \o EntryIds(batch_results)
    /\ pc' = "checkpoint"
    /\ UNCHANGED <<checkpoint_file, long_runners, completed, pending_machines, batch_start,
                   batch_pos, batch_results, pool_name, crashes, io_failures, rerun,
                   loaded, attempted>>
    /\ Frozen

\* A write or the flush raises (disk full, I/O error): the entries before the
\* failure may have reached the file; the exception leaves simulate_pool.
WriteResultsFail ==
    /\ pc = "write"
    /\ crashes + io_failures < MaxFaults
    /\ \E k \in 0..Len(batch_results) :
          /\ results_log' = results_log \o Prefix(batch_results, k)
          /\ flushed' = flushed \o EntryIds(Prefix(batch_results, k))
    /\ io_failures' = io_failures + 1
    /\ pc' = "aborted" /\ Memory0
    /\ UNCHANGED <<checkpoint_file, long_runners, pool_name, crashes, rerun, loaded,
                   attempted>>
    /\ Frozen

\* save_checkpoint (the file rewritten in full), then the batch loop goes on
\* to the next batch or, after the last, closes the results file and returns.
SaveCheckpoint_mutant_batch_only ==
    /\ pc = "checkpoint"
    /\ checkpoint_file' = [state |-> "valid", ids |-> EntryIds(batch_results)]
    /\ batch_start' = batch_start + batch_size
    /\ batch_pos' = 1
    /\ batch_results' = <<>>
    /\ pc' = IF batch_start + batch_size < Len(pending_machines) THEN "simulate" ELSE "done"
    /\ UNCHANGED <<results_log, long_runners, completed, pending_machines, pool_name,
                   crashes, io_failures, rerun, loaded, attempted, flushed>>
    /\ Frozen

SaveCheckpoint ==
    /\ pc = "checkpoint"
    /\ checkpoint_file' = [state |-> "valid", ids |-> completed]
    /\ batch_start' = batch_start + batch_size
    /\ batch_pos' = 1
    /\ batch_results' = <<>>
    /\ pc' = IF batch_start + batch_size < Len(pending_machines) THEN "simulate" ELSE "done"
    /\ UNCHANGED <<results_log, long_runners, completed, pending_machines, pool_name,
                   crashes, io_failures, rerun, loaded, attempted, flushed>>
    /\ Frozen

\* What a failed or interrupted save_checkpoint leaves: the old file (open
\* failed) or, open(.., "w") having truncated it, a file cut short that holds
\* the first k ids.
CutCheckpoints == { [state |-> "partial", ids |-> Prefix(completed, k)] : k \in 0..Len(completed) }

SaveCheckpointFail ==
    /\ pc = "checkpoint"
    /\ crashes + io_failures < MaxFaults
    /\ checkpoint_file' \in {checkpoint_file} \cup CutCheckpoints
    /\ io_failures' = io_failures + 1
    /\ pc' = "aborted" /\ Memory0
    /\ UNCHANGED <<results_log, long_runners, pool_name, crashes, rerun, loaded, attempted,
                   flushed>>
    /\ Frozen

\* The process is killed: memory is lost, the files stay as they are.  Entries
\* written but not yet flushed are lost, except a prefix the file buffer had
\* already passed on; a checkpoint being written is left cut short.
Crash ==
    /\ pc \in {"simulate", "write", "checkpoint"}
    /\ crashes + io_failures < MaxFaults
    /\ crashes' = crashes + 1
    /\ pc' = "crashed" /\ Memory0
    /\ IF pc = "write"
       THEN \E k \in 0..Len(batch_results) :
               /\ results_log' = results_log \o Prefix(batch_results, k)
               /\ flushed' = flushed \o EntryIds(Prefix(batch_results, k))
       ELSE UNCHANGED <<results_log, flushed>>
    /\ IF pc = "checkpoint"
       THEN checkpoint_file' \in {checkpoint_file} \cup CutCheckpoints
       ELSE UNCHANGED checkpoint_file
    /\ UNCHANGED <<long_runners, pool_name, io_failures, rerun, loaded, attempted>>
    /\ Frozen

\* The same pool content is saved under a fresh pool name and run from
\* there: no results log and no checkpoint exist under that name; the
\* long-runner pool is the one file shared by all pools.  The files of the
\* old name are not used again and are dropped from the state.
FreshPool ==
    /\ pc = "done"
    /\ pool_name < MaxPoolNames
    /\ pool_name' = pool_name + 1
    /\ results_log' = <<>>
    /\ checkpoint_file' = [state |-> "absent", ids |-> <<>>]
    /\ pc' = "idle" /\ Memory0
    /\ rerun' = FALSE /\ loaded' = <<>> /\ attempted' = <<>> /\ flushed' = <<>>
    /\ UNCHANGED <<long_runners, crashes, io_failures>>
    /\ Frozen

Next ==
    \/ Start
    \/ SimulateMachine
    \/ WriteResults
    \/ WriteResultsFail
    \/ SaveCheckpoint
    \/ SaveCheckpointFail
    \/ Crash
    \/ FreshPool

Spec == Init /\ [][Next]_vars

----------------------------------------------------------------------------
\* Properties of the simulators (SimSpec)

\* The cell the running simulator reads next, where its index lies in the table.
RuleIdx == sim.state * 2 + sim.tape[sim.head]
CellInTable == RuleIdx \in 0..(Len(rules) - 1)
CellRead == rules[RuleIdx + 1]

HeadInBounds == 0 <= sim.head /\ sim.head <= tape_size - 1

\* A Move that would take the head past a tape edge.
MovesPastEdge ==
    /\ sim.status = "running" /\ sim.steps < max_steps
    /\ tape_size <= LocalTapeCapacity
    /\ CellInTable
    /\ CellRead # Halt
    /\ \/ CellRead[2] = 0 /\ sim.head = 0
       \/ CellRead[2] # 0 /\ sim.head = tape_size - 1

EdgeStepClamps ==
    MovesPastEdge =>
        /\ sim'.head = sim.head
        /\ sim'.steps = sim.steps + 1
        /\ sim'.state = CellRead[3]
        /\ sim'.tape = [sim.tape EXCEPT ![sim.head] = CellRead[1]]
        /\ sim'.status = "running"
        /\ sim'.halted = FALSE

RunResultOk ==
    /\ 0 <= sim.steps /\ sim.steps <= max_steps
    /\ sim.steps = moves
    /\ sim.status \in {"running", "returned"}
    /\ sim.status = "running" => (~halt_read /\ ~sim.halted /\ ENABLED SimNext)
    /\ sim.status = "returned" =>
          /\ sim.halted <=> halt_read
          /\ sim.halted => sim.steps < max_steps
          /\ ~sim.halted => sim.steps = max_steps

\* Every iteration either ends the run or uses up one step of the budget.
BudgetDecreases ==
    sim.status = "running" =>
        \/ sim'.status = "returned"
        \/ sim'.status = "running" /\ sim'.steps = sim.steps + 1 /\ sim'.steps <= max_steps

\* C10: for every table, a single-machine run (on a tape the simulator has
\* room for) terminates (each iteration returns or uses one step of a budget
\* of max_steps, and an iteration is always possible while running) and
\* returns (steps, halted) with 0 <= steps <= max_steps, steps the number of
\* Moves applied, halted = TRUE exactly when a Halt cell was read before
\* max_steps Moves, and halted = FALSE only with steps = max_steps.
C10_RunTerminatesWithResult ==
    /\ [](tape_size <= LocalTapeCapacity => RunResultOk)
    /\ [][tape_size <= LocalTapeCapacity => BudgetDecreases]_vars

\* C10 witness: a CPU run has returned halted after two Moves.
C10_Witness ==
    /\ kind = "cpu" /\ sim.status = "returned" /\ sim.halted /\ sim.steps = 2
    /\ max_steps = 3

----------------------------------------------------------------------------
\* Properties of the pool runner (Spec)

Running == pc \in {"simulate", "write", "checkpoint"}

\* The pool ids not in the checkpoint the run loaded, in pool order.
PoolMinusLoaded ==
    LET NotLoaded(m) == \A i \in 1..Len(loaded) : loaded[i] # m
    IN  SelectSeq(pool, NotLoaded)

ResumesOnPending ==
    /\ Running => /\ pending_machines = PoolMinusLoaded
                  /\ batch_start + batch_pos - 1 <= Len(pending_machines)
                  /\ attempted = Prefix(pending_machines, batch_start + batch_pos - 1)
    /\ pc = "done" => attempted = PoolMinusLoaded
    /\ \A i \in 1..Len(attempted) : attempted[i] \notin Range(loaded)

LogOnlyGrows == (pool_name' = pool_name) => IsPrefix(results_log, results_log')

\* C1: a run of simulate_pool (in particular one restarted after an
\* interruption that followed k checkpointed batches) takes up exactly the
\* pool ids that are not in the persisted checkpoint, in pool order, never an
\* id that is in it, and the results log of the pool only grows: every
\* ResultEntry written before is still there.
C1_CrashSafety == []ResumesOnPending /\ [][LogOnlyGrows]_vars

\* C1 witness: after an interruption a restarted run found a non-empty
\* checkpoint, took up the remaining ids and completed.
C1_Witness ==
    /\ crashes = 1 /\ pc = "done" /\ loaded # <<>> /\ attempted # <<>>
    /\ Len(results_log) = 2

\* The load and the simulation of machine m both end without an exception.
Succeeds(m) ==
    LET ld == load_ruleset(m)
    IN  /\ ld.raised = ""
        /\ \A oob \in OobCells : simulate(ld.rules, oob).status = "returned"

\* The ids of the current run for which the simulator was called.
Simulated ==
    LET Loads(m) == load_ruleset(m).raised = "" IN SelectSeq(attempted, Loads)

NoFaults == crashes = 0 /\ io_failures = 0

\* C2: after simulate_pool has run to completion, a second run with the same
\* pool and checkpoint simulates no machine and leaves the results log, the
\* checkpoint file and the long-runner pool as they are.
C2_RerunIsNoOp ==
    [][(rerun /\ pool_name' = pool_name /\ NoFaults') =>
          /\ Simulated' = <<>>
          /\ results_log' = results_log
          /\ checkpoint_file' = checkpoint_file
          /\ long_runners' = long_runners]_vars

\* The ids of the batches the current run has processed and checkpointed.
ProcessedIds ==
    Prefix(pending_machines,
           IF batch_start < Len(pending_machines) THEN batch_start ELSE Len(pending_machines))

\* C3: after each batch every machine id of the batch is in the completed set
\* persisted to the checkpoint, whether it was simulated or its load or
\* simulation raised.
C3_BatchIdsCompleted ==
    (Running \/ pc = "done") =>
        \A i \in 1..Len(ProcessedIds) : ProcessedIds[i] \in Range(checkpoint_file.ids)

HasEntry(m) == \E i \in 1..Len(results_log) : results_log[i].machine_id = m

\* C4: a machine whose load or simulation raises never ends the run: the run
\* is left only by a failed write or an interruption, every other machine of
\* the processed batches has its ResultEntry in the log and its id in the
\* checkpoint, and the checkpoint is saved after each batch.
C4_FailureDoesNotAbort ==
    /\ pc = "aborted" => ~NoFaults
    /\ (Running \/ pc = "done") =>
          \A i \in 1..Len(ProcessedIds) :
              Succeeds(ProcessedIds[i]) =>
                  /\ HasEntry(ProcessedIds[i])
                  /\ ProcessedIds[i] \in Range(checkpoint_file.ids)
    /\ ((pc = "simulate" /\ batch_pos = 1 /\ batch_start > 0)
          \/ (pc = "done" /\ pending_machines # <<>>)) =>
          checkpoint_file = [state |-> "valid", ids |-> completed]

\* C4 witness: an undisturbed run has completed in which a machine failed and
\* a later one was simulated and recorded.
C4_Witness ==
    /\ pc = "done" /\ NoFaults
    /\ \E i, j \in 1..Len(attempted) :
          /\ i < j /\ ~Succeeds(attempted[i]) /\ Succeeds(attempted[j])
          /\ HasEntry(attempted[j])
          /\ attempted[j] \in Range(checkpoint_file.ids)

\* C5: in every state, those after a failed results write or checkpoint
\* write included, the checkpoint on disk holds no id added by the current run
\* whose ResultEntry has not been flushed to the results log.
C5_CheckpointNeverAhead ==
    \A m \in PoolIds :
        Count(m, checkpoint_file.ids) <= Count(m, loaded) + Count(m, flushed)

\* C5 witness: a checkpoint write failed half way after the batch's results
\* were flushed; the ids it left in the file are all in the log.
C5_Witness ==
    /\ io_failures = 1 /\ pc = "aborted" /\ checkpoint_file.state = "partial"
    /\ checkpoint_file.ids # <<>> /\ loaded = <<>>

\* The simulation of m can end not halted with steps = max_steps.
EndsAsLongRunner(m) ==
    LET ld == load_ruleset(m)
    IN  /\ ld.raised = ""
        /\ \E oob \in OobCells :
              LET c == simulate(ld.rules, oob)
              IN  c.status = "returned" /\ ~c.halted /\ c.steps = max_steps

\* The load or the simulation of m can fail, or the simulation can end halted
\* or with other than max_steps steps.
EndsOtherwise(m) ==
    LET ld == load_ruleset(m)
    IN  \/ ld.raised # ""
        \/ \E oob \in OobCells :
              LET c == simulate(ld.rules, oob)
              IN  c.status # "returned" \/ c.halted \/ c.steps # max_steps

PromotedIffLongRunner ==
    IF pc = "simulate" /\ Len(attempted') = Len(attempted) + 1
    THEN LET m == attempted'[Len(attempted')]
         IN  \/ long_runners' = Append(long_runners, m) /\ EndsAsLongRunner(m)
             \/ long_runners' = long_runners /\ EndsOtherwise(m)
    ELSE long_runners' = long_runners

\* C6: simulate_pool appends a machine id to the long-runner pool exactly when
\* the machine's simulation returned halted = FALSE with steps_taken =
\* max_steps; a machine that halted or whose load or simulation failed is not
\* appended, and nothing else writes to the long-runner pool.
C6_PromotedIffLongRunner == [][PromotedIffLongRunner]_vars

\* C6 witness: a run has completed that simulated a machine that halted and
\* a long-runner, and promoted only the long-runner.
C6_Witness ==
    /\ pc = "done" /\ NoFaults /\ pool_name = 1
    /\ pool = <<"TM_000001", "TM_000000">>
    /\ long_runners = <<"TM_000000">>
    /\ Len(results_log) = 2 /\ results_log[1].halted

LoopId == "TM_000000"

LoopRunsToBudget ==
    LET c == simulate(load_ruleset(LoopId).rules, Halt)
    IN  c.status = "returned" /\ ~c.halted /\ c.steps = 5

OncePerRun == NoFaults /\ pc = "done" /\ max_steps = 5 /\ Count(LoopId, pool) = 1

\* C7 as stated: the machine that never halts, run with max_steps = 5, yields
\* halted = FALSE and steps_taken = 5, and its id is in the long-runner pool
\* exactly once after one run and still exactly once after a second run of
\* the same pool under a fresh pool name.
C7_PromotedOnceAcrossPools ==
    OncePerRun => (LoopRunsToBudget /\ Count(LoopId, long_runners) = 1)

\* C7 as amended: ... yields halted = FALSE and steps_taken = 5, and its id is
\* in the long-runner pool once after one run and twice after a second run
\* under a fresh pool name: once per completed run, the long-runner pool being
\* append-only and never deduplicated.
C7_PromotedOncePerRun ==
    OncePerRun => (LoopRunsToBudget /\ Count(LoopId, long_runners) = pool_name)

\* C7 witness: the second run, under a fresh pool name, has completed and the
\* id is in the long-runner pool twice.
C7_Witness ==
    /\ OncePerRun /\ pool_name = 2 /\ Count(LoopId, long_runners) = 2

NoRepeats(seq) == \A i, j \in 1..Len(seq) : seq[i] = seq[j] => i = j

PromotedInLog(m) ==
    \E i \in 1..Len(results_log) :
        /\ results_log[i].machine_id = m
        /\ ~results_log[i].halted /\ results_log[i].steps_taken >= max_steps

\* The files as a run that is never interrupted leaves them (for a pool
\* without repeated ids, under its first name).
AsUninterrupted ==
    /\ EntryIds(results_log) = SelectSeq(pool, Succeeds)
    /\ long_runners = SelectSeq(pool, PromotedInLog)
    /\ pool # <<>> => checkpoint_file = [state |-> "valid", ids |-> SelectSeq(pool, Succeeds)]
    /\ \A m \in PoolIds : Count(m, EntryIds(results_log)) <= 1 /\ Count(m, long_runners) <= 1

\* C8: a batch is atomic under interruption: when a run that was interrupted
\* while a batch was in flight has been resumed and has completed, the results
\* log, the checkpoint and the long-runner pool are those of an uninterrupted
\* run, and no machine has two ResultEntries or two long-runner entries.
C8_BatchAtomic ==
    (pc = "done" /\ io_failures = 0 /\ pool_name = 1 /\ NoRepeats(pool)) => AsUninterrupted

\* The same statement for runs that were never interrupted.
UninterruptedRunsAgree ==
    (pc = "done" /\ NoFaults /\ pool_name = 1 /\ NoRepeats(pool)) => AsUninterrupted

----------------------------------------------------------------------------
\* The concrete scenario (SimSpec)

Scenario ==
    /\ states = 2 /\ symbols = 2 /\ rules = HaltTable
    /\ tape_size = 4 /\ max_steps = 10

----------------------------------------------------------------------------
\* The substrates compared (SimSpec)

Returned(c, stepcount, halt) ==
    c.status = "returned" /\ c.steps = stepcount /\ c.halted = halt

\* C12: for every rule table, max_steps and tape_size within the batch
\* kernel's tape capacity, simulate_single_cpu, simulate_single_gpu and the
\* batch kernel all return, and return the (steps, halted) pair of the run
\* observed, whatever a read outside the device array yields: the substrates
\* agree with each other and each with itself.
C12_SubstratesAgree ==
    (sim.status # "running" /\ tape_size <= LocalTapeCapacity) =>
        /\ sim.status = "returned"
        /\ Returned(simulate_single_cpu(rules, max_steps, tape_size), sim.steps, sim.halted)
        /\ \A oob \in OobCells :
              /\ Returned(simulate_single_gpu(rules, max_steps, tape_size, oob),
                          sim.steps, sim.halted)
              /\ Returned(run_batch(rules, max_steps, tape_size, oob), sim.steps, sim.halted)

\* The same for the tables whose rows the hard-coded index state * 2 + symbol
\* never leaves: two or more symbols, or a single state.
C12_AgreeWithinTable ==
    (symbols >= 2 \/ states = 1) => C12_SubstratesAgree

----------------------------------------------------------------------------
\* The cell a step applies (SimSpec)

\* The configuration after transition cell is applied in configuration c.
ApplyCell(c, cell, n) ==
    IF cell = Halt
    THEN [c EXCEPT !.new_symbol = -1, !.status = "returned", !.halted = TRUE]
    ELSE LET h0 == c.head + (IF cell[2] = 0 THEN -1 ELSE 1)
             h1 == IF h0 < 0 THEN 0 ELSE IF h0 >= n THEN n - 1 ELSE h0
         IN  [c EXCEPT !.new_symbol = cell[1], !.tape[c.head] = cell[1], !.head = h1,
                       !.state = cell[3], !.steps = c.steps + 1]

\* The index of the cell the generator produced for (state, symbol).
GeneratedIdx == sim.state * symbols + sim.tape[sim.head]

StepAppliesGeneratedCell ==
    (sim.status = "running" /\ sim.steps < max_steps /\ tape_size <= LocalTapeCapacity) =>
        /\ GeneratedIdx \in 0..(Len(rules) - 1)
        /\ sim' = ApplyCell(sim, rules[GeneratedIdx + 1], tape_size)

\* C13: for every number of states and of symbols, each simulation step reads
\* symbol = tape[head] and applies the transition at table index
\* state * symbols + symbol.
C13_StepAppliesGeneratedCell == [][StepAppliesGeneratedCell]_vars

\* The same for the cases in which state * 2 + symbol is that index: two
\* symbols, or one state.
C13_TwoSymbolCases == [][(symbols = 2 \/ states = 1) => StepAppliesGeneratedCell]_vars

----------------------------------------------------------------------------
\* The batch kernel's tape capacity (SimSpec)

\* C14: a batch simulation requested with tape_size above the kernel's
\* per-thread tape capacity is rejected before the kernel is launched: the
\* kernel never executes with such a tape_size, so no tape access falls
\* outside the local array (the request is either still to be served or has
\* been rejected).
C14_OversizeTapeRejected ==
    (kind = "batch_kernel" /\ tape_size > LocalTapeCapacity) =>
        (sim = StartCfg(tape_size) \/ sim.status = "rejected")

----------------------------------------------------------------------------
\* The generators: transition options, hashing, the block store

\* The cases generated, the worker counts of the partitioned strategy in the
\* first run on a case folder and in a later run, and the runs on one folder.
GenCases == {<<1, 1>>, <<1, 2>>}
WorkerCounts == {1, 3}
RerunWorkerCounts == {1}
GenRunNumbers == {1, 2}

\* prebuilt_transitions of ruleset_generator.py: the options in list order, for
\* new_symbol, for direction in ['L', 'R'], for new_state, with
\* dir_bit = 0 if direction == 'L' else 1; the halting option last.
prebuilt_transitions(ns, nk) ==
    [j \in 1..(2 * ns * nk + 1) |->
        IF j = 2 * ns * nk + 1 THEN Halt
        ELSE << (j - 1) \div (2 * ns), ((j - 1) \div ns) % 2, (j - 1) % ns >>]

\* prebuilt_transitions / transition_arr of parallel_ruleset_generator.py:
\* dir_bit = 0 if direction == 0 else 1, where direction is 'L' or 'R', never 0.
parallel_prebuilt_transitions(ns, nk) ==
    [j \in 1..(2 * ns * nk + 1) |->
        IF j = 2 * ns * nk + 1 THEN Halt
        ELSE << (j - 1) \div (2 * ns), 1, (j - 1) % ns >>]

\* product(range(base), repeat = nt): the i-th choice vector, first cell most
\* significant.
ProductChoice(i, base, nt) == [t \in 1..nt |-> (i \div (base ^ (nt - t))) % base]

\* generate_rulesets_kernel: thread idx decodes its choice vector by repeated
\* choice % base, choice // base, first cell least significant.
KernelChoice(idx, base, nt) == [t \in 1..nt |-> (idx \div (base ^ (t - 1))) % base]

RulesOf(choice, options) == [t \in 1..Len(choice) |-> options[choice[t] + 1]]

\* any(transition == [-1, 0, -1] for transition in rules)
has_halt(rls) == \E t \in 1..Len(rls) : rls[t] = Halt

\* json.dumps of a list of integer lists, as the text's bracket and number
\* tokens (separators and whitespace carry nothing more).
RECURSIVE Flatten(_)
Flatten(seqs) == IF seqs = <<>> THEN <<>> ELSE Head(seqs) \o Flatten(Tail(seqs))

json_dumps(rls) ==
    <<"[">> \o Flatten([t \in 1..Len(rls) |->
                          <<"[">> \o [k \in 1..Len(rls[t]) |-> ToString(rls[t][k])] \o <<"]">>])
            \o <<"]">>

\* json.load of such a text: the list of the integer lists it spells.
JsonInt(tok) == CHOOSE v \in -9..9 : ToString(v) = tok

RECURSIVE JsonRows(_)
JsonRows(toks) ==
    IF toks = <<>> THEN <<>>
    ELSE LET close == MinOf({ k \in 1..Len(toks) : toks[k] = "]" })
         IN  << [k \in 1..(close - 2) |-> JsonInt(toks[k + 1])] >>
                 \o JsonRows(SubSeq(toks, close + 1, Len(toks)))

json_load(text) == JsonRows(SubSeq(text, 2, Len(text) - 1))

\* hash_ruleset: the SHA-256 digest of json.dumps(rules).  A digest is
\* represented by the text digested: two texts have one digest iff they are
\* equal.
hash_ruleset_mutant_no_direction(rls) ==
    json_dumps([t \in 1..Len(rls) |-> <<rls[t][1], 0, rls[t][3]>>])

hash_ruleset(rls) == json_dumps(rls)

\* A block file: its JSON text and the indent it was written with (indent = 2
\* by ruleset_generator.py, none by parallel_ruleset_generator.py).
BlockFile(rls, indent) == [text |-> json_dumps(rls), indent |-> indent]

\* save_block has three steps another process can come between: the test
\* "not block_path.exists()", open(block_path, "w"), which creates the file or
\* empties the one that is there, and json.dump with the close of the file,
\* which writes the text from offset 0.
BlockMissing_mutant_always(store, h) == TRUE

BlockMissing(store, h) == h \notin DOMAIN store

TruncatedFile == [text |-> <<>>, indent |-> 0]

OpenBlock(store, h) ==
    [x \in DOMAIN store \cup {h} |-> IF x = h THEN TruncatedFile ELSE store[x]]

WriteBlock_mutant_append(store, h, file) ==
    [x \in DOMAIN store \cup {h} |->
        IF x # h THEN store[x]
        ELSE IF h \in DOMAIN store
             THEN [text |-> store[h].text \o file.text, indent |-> file.indent]
             ELSE file]

WriteBlock(store, h, file) ==
    [x \in DOMAIN store \cup {h} |-> IF x = h THEN file ELSE store[x]]

\* save_machine_index: open(index_file, "a") and one write of the entry's
\* line.  Where the file system appends in one indivisible step the line lands
\* at the end of the file; where it does not (the end is looked up, then the
\* line is written there) a line another process wrote in between is written
\* over.
save_machine_index(file, entry) == Append(file, entry)

write_at(file, offset, entry) ==
    IF offset >= Len(file) THEN Append(file, entry)
    ELSE [file EXCEPT ![offset + 1] = entry]

\* load_ruleset of ruleset_inspect.py: the block at the path of hash h.
load_block(store, h) ==
    IF h \notin DOMAIN store THEN [raised |-> "FileNotFoundError", rules |-> <<>>]
    ELSE IF store[h].text = <<>> THEN [raised |-> "JSONDecodeError", rules |-> <<>>]
    ELSE [raised |-> "", rules |-> json_load(store[h].text)]

----------------------------------------------------------------------------
\* GenSpec: generation runs into one case folder rulesets/s<states>_k<symbols>

Strategies == {"sequential", "partitioned", "gpu"}

\* transition_options / prebuilt_transitions of the module the strategy is in.
OptionsOf(strat) ==
    IF strat = "sequential" THEN prebuilt_transitions(states, symbols)
    ELSE parallel_prebuilt_transitions(states, symbols)

num_transitions == states * symbols

\* total_combinations = num_transition_options ** num_transitions
total_combinations(strat) == Len(OptionsOf(strat)) ^ num_transitions

\* The generating processes at the start of a run.  The partitioned strategy
\* gives worker i the slice all_choices[i * chunk_size:(i + 1) * chunk_size]
\* with chunk_size = len(all_choices) // num_workers + 1 and start_idx =
\* i * chunk_size; the other two strategies have one process for every index.
\* A process holds its slice [lo, hi), the next index pos, machine_counter,
\* seen_hashes and its place in the loop.
chunk_size_mutant_floor(total, nw) == total \div nw

\* chunk_size = len(all_choices) // num_workers + 1
chunk_size(total, nw) == total \div nw + 1

\* chunks[i] = (i, i * chunk_size, all_choices[i * chunk_size:(i + 1) * chunk_size]):
\* the start index of worker i (from 0) and the choice indices in its slice.
chunks(total, nw) ==
    [i \in 0..(nw - 1) |->
        [start_idx |-> i * chunk_size(total, nw),
         choices |-> { p \in 0..(total - 1) :
                         /\ i * chunk_size(total, nw) <= p
                         /\ p < (i + 1) * chunk_size(total, nw) }]]

StartWorkers(strat, nw) ==
    LET total == total_combinations(strat)
        size == chunk_size(total, nw)
    IN  IF strat = "partitioned"
        THEN [i \in 1..nw |->
                [lo |-> (i - 1) * size,
                 hi |-> IF i * size < total THEN i * size ELSE total,
                 pos |-> (i - 1) * size,
                 machine_counter |-> (i - 1) * size,
                 seen_hashes |-> {},
                 offset |-> 0,
                 phase |-> "loop"]]
        ELSE [i \in 1..1 |->
                [lo |-> 0, hi |-> total, pos |-> 0, machine_counter |-> 0,
                 seen_hashes |-> {},
                 offset |-> 0,
                 phase |-> IF strat = "gpu" THEN "kernel" ELSE "loop"]]

GenInit ==
    /\ \E c \in GenCases : states = c[1] /\ symbols = c[2]
    /\ strategy \in Strategies
    /\ num_workers \in (IF strategy = "partitioned" THEN WorkerCounts ELSE {1})
    /\ workers = StartWorkers(strategy, num_workers)
    /\ index_file = <<>> /\ blocks = <<>>
    /\ validity_flags = <<>> /\ out_rulesets = <<>>
    /\ runs = 1
    /\ max_steps = 0 /\ tape_size = 1
    /\ kind = "none" /\ rules = <<>> /\ sim = StartCfg(1) /\ moves = 0
    /\ halt_read = FALSE
    /\ PoolIdle
    /\ DriverIdle /\ NoLaunch /\ TmIdle

GenFrozen == UNCHANGED <<max_steps, tape_size, states, symbols, simVars, poolVars,
                         driverVars, tmVars>>

threads_per_block == 256

\* The threads of the launch: blocks_per_grid * threads_per_block.
ThreadsLaunched(total) ==
    ((total + (threads_per_block - 1)) \div threads_per_block) * threads_per_block

PaddingRow == <<-2, -2, -2>>

\* The launch of generate_rulesets_kernel and the copy of its buffers to the
\* host.  Thread idx decodes its table; if a cell has new_symbol = -1 it
\* writes the table to out_rulesets[idx] and 1 to validity_flags[idx], else 0
\* to validity_flags[idx].  The kernel has no test of idx against the buffers'
\* length: every thread idx >= total_combinations of the last block writes
\* validity_flags[idx], and out_rulesets[idx] too if its table has a halting
\* cell, outside the buffers.  Where such a write lands is not defined; the
\* outcomes modelled are that it shows nowhere, or that one of the values
\* written lands on the flag of the first or of the last candidate.
GpuKernel ==
    /\ strategy = "gpu" /\ workers[1].phase = "kernel"
    /\ LET total == total_combinations("gpu")
           options == OptionsOf("gpu")
           TableOf(idx) == RulesOf(KernelChoice(idx, Len(options), num_transitions), options)
           Valid(idx) == \E t \in 1..num_transitions : TableOf(idx)[t][1] = -1
           flags == [i \in 1..total |-> IF Valid(i - 1) THEN 1 ELSE 0]
           Strays == total..(ThreadsLaunched(total) - 1)
           StrayValues == { IF Valid(idx) THEN 1 ELSE 0 : idx \in Strays } \cup
                          { TableOf(idx)[t][k] :
                              idx \in { i \in Strays : Valid(i) },
                              t \in 1..num_transitions, k \in 1..3 }
       IN  /\ out_rulesets' = [i \in 1..total |->
                                  IF Valid(i - 1) THEN TableOf(i - 1)
                                  ELSE [t \in 1..num_transitions |-> PaddingRow]]
           /\ \/ validity_flags' = flags
              \/ /\ Strays # {}
                 /\ \E victim \in {1, total}, value \in StrayValues :
                       validity_flags' = [flags EXCEPT ![victim] = value]
           /\ kernel_writes' = [len |-> total,
                                slots |-> { <<idx, idx>> : idx \in 0..(ThreadsLaunched(total) - 1) }]
    /\ workers' = [workers EXCEPT ![1].phase = "loop"]
    /\ UNCHANGED <<strategy, num_workers, index_file, blocks, runs>>
    /\ GenFrozen

\* The table a process finds at index p, and whether the loop takes it up:
\* the sequential and partitioned loops skip a table without a halting cell;
\* the host pass takes the indices whose flag is not zero and drops the
\* padding rows.
RulesAt(p) ==
    IF strategy = "gpu"
    THEN LET NotPadding(r) == r[1] # -2 IN SelectSeq(out_rulesets[p + 1], NotPadding)
    ELSE LET options == OptionsOf(strategy)
         IN  RulesOf(ProductChoice(p, Len(options), num_transitions), options)

TakenUp(p) ==
    IF strategy = "gpu" THEN validity_flags[p + 1] # 0 ELSE has_halt(RulesAt(p))

IndexEntry(machine_counter, ruleset_hash, is_canonical) ==
    [machine_id |-> machine_counter, ruleset_hash |-> ruleset_hash,
     is_canonical |-> is_canonical, with_case |-> (strategy = "sequential")]

\* Another process can write to the index file between the two steps of an
\* append of process w only in a partitioned run in which another worker has
\* not ended.  The runs followed have at most one append in two steps under
\* way at a time, and none once a line of the index has been written over.
NoRecordLost ==
    \A v \in DOMAIN workers :
        \A id \in workers[v].lo..(workers[v].machine_counter - 1) :
            \E i \in 1..Len(index_file) : index_file[i].machine_id = id

ConcurrentAppends(w) ==
    /\ strategy = "partitioned"
    /\ \E v \in DOMAIN workers : v # w /\ workers[v].phase # "done"
    /\ \A v \in DOMAIN workers : workers[v].phase # "append"
    /\ NoRecordLost

\* One pass of the generation loop of process w, from the next table taken up
\* to its index entry; a canonical table whose block does not exist stops
\* between save_block's test and its open.  Where appends of several processes
\* are not indivisible the pass stops with the end of the index file looked
\* up and the line not yet written; seen_hashes, which no other process sees,
\* is then brought up to date with the line.
WorkerIterate_mutant_stored(w) ==
    /\ workers[w].phase = "loop"
    /\ LET me == workers[w]
           cands == { p \in me.pos..(me.hi - 1) : TakenUp(p) }
       IN  IF cands = {}
           THEN /\ workers' = [workers EXCEPT ![w].phase = "done", ![w].pos = me.hi]
                /\ UNCHANGED <<index_file, blocks>>
           ELSE LET p == MinOf(cands)
                    ruleset_hash == hash_ruleset(RulesAt(p))
                    is_canonical == /\ ruleset_hash \notin me.seen_hashes
                                    /\ BlockMissing(blocks, ruleset_hash)
                IN  IF is_canonical /\ BlockMissing(blocks, ruleset_hash)
                    THEN /\ workers' = [workers EXCEPT ![w].phase = "write", ![w].pos = p]
                         /\ UNCHANGED <<index_file, blocks>>
                    ELSE \/ /\ workers' = [workers EXCEPT
                                  ![w].pos = p + 1,
                                  ![w].machine_counter = me.machine_counter + 1,
                                  ![w].seen_hashes = IF is_canonical
                                                     THEN me.seen_hashes \cup {ruleset_hash}
                                                     ELSE me.seen_hashes]
                            /\ index_file' = save_machine_index(index_file,
                                  IndexEntry(me.machine_counter, ruleset_hash, is_canonical))
                            /\ UNCHANGED blocks
                         \/ /\ ConcurrentAppends(w)
                            /\ workers' = [workers EXCEPT ![w].phase = "append",
                                                          ![w].pos = p,
                                                          ![w].offset = Len(index_file)]
                            /\ UNCHANGED <<index_file, blocks>>
    /\ UNCHANGED <<strategy, num_workers, validity_flags, out_rulesets, runs, kernel_writes>>
    /\ GenFrozen

WorkerIterate(w) ==
    /\ workers[w].phase = "loop"
    /\ LET me == workers[w]
           cands == { p \in me.pos..(me.hi - 1) : TakenUp(p) }
       IN  IF cands = {}
           THEN /\ workers' = [workers EXCEPT ![w].phase = "done", ![w].pos = me.hi]
                /\ UNCHANGED <<index_file, blocks>>
           ELSE LET p == MinOf(cands)
                    ruleset_hash == hash_ruleset(RulesAt(p))
                    is_canonical == ruleset_hash \notin me.seen_hashes
                IN  IF is_canonical /\ BlockMissing(blocks, ruleset_hash)
                    THEN /\ workers' = [workers EXCEPT ![w].phase = "write", ![w].pos = p]
                         /\ UNCHANGED <<index_file, blocks>>
                    ELSE \/ /\ workers' = [workers EXCEPT
                                  ![w].pos = p + 1,
                                  ![w].machine_counter = me.machine_counter + 1,
                                  ![w].seen_hashes = IF is_canonical
                                                     THEN me.seen_hashes \cup {ruleset_hash}
                                                     ELSE me.seen_hashes]
                            /\ index_file' = save_machine_index(index_file,
                                  IndexEntry(me.machine_counter, ruleset_hash, is_canonical))
                            /\ UNCHANGED blocks
                         \/ /\ ConcurrentAppends(w)
                            /\ workers' = [workers EXCEPT ![w].phase = "append",
                                                          ![w].pos = p,
                                                          ![w].offset = Len(index_file)]
                            /\ UNCHANGED <<index_file, blocks>>
    /\ UNCHANGED <<strategy, num_workers, validity_flags, out_rulesets, runs, kernel_writes>>
    /\ GenFrozen

\* open(block_path, "w") of save_block: the block file is there and empty.
WorkerOpenBlock(w) ==
    /\ workers[w].phase = "write"
    /\ blocks' = OpenBlock(blocks, hash_ruleset(RulesAt(workers[w].pos)))
    /\ workers' = [workers EXCEPT ![w].phase = "dump"]
    /\ UNCHANGED <<strategy, num_workers, index_file, validity_flags, out_rulesets, runs,
                   kernel_writes>>
    /\ GenFrozen

\* The rest of that pass: the table dumped into the block, the table marked
\* seen, its index entry appended.
WorkerWriteBlock(w) ==
    /\ workers[w].phase = "dump"
    /\ LET me == workers[w]
           rls == RulesAt(me.pos)
           ruleset_hash == hash_ruleset(rls)
       IN  /\ blocks' = WriteBlock(blocks, ruleset_hash,
                                   BlockFile(rls, IF strategy = "sequential" THEN 2 ELSE 0))
           /\ \/ /\ index_file' = save_machine_index(index_file,
                                      IndexEntry(me.machine_counter, ruleset_hash, TRUE))
                 /\ workers' = [workers EXCEPT
                       ![w].phase = "loop",
                       ![w].pos = me.pos + 1,
                       ![w].machine_counter = me.machine_counter + 1,
                       ![w].seen_hashes = me.seen_hashes \cup {ruleset_hash}]
              \/ /\ ConcurrentAppends(w)
                 /\ workers' = [workers EXCEPT ![w].phase = "append",
                                               ![w].offset = Len(index_file)]
                 /\ UNCHANGED index_file
    /\ UNCHANGED <<strategy, num_workers, validity_flags, out_rulesets, runs, kernel_writes>>
    /\ GenFrozen

\* The write of an index line whose place was looked up in an earlier step.
WorkerAppend(w) ==
    /\ workers[w].phase = "append"
    /\ LET me == workers[w]
           ruleset_hash == hash_ruleset(RulesAt(me.pos))
           is_canonical == ruleset_hash \notin me.seen_hashes
       IN  /\ index_file' = write_at(index_file, me.offset,
                                     IndexEntry(me.machine_counter, ruleset_hash, is_canonical))
           /\ workers' = [workers EXCEPT
                 ![w].phase = "loop",
                 ![w].pos = me.pos + 1,
                 ![w].offset = 0,
                 ![w].machine_counter = me.machine_counter + 1,
                 ![w].seen_hashes = IF is_canonical
                                    THEN me.seen_hashes \cup {ruleset_hash}
                                    ELSE me.seen_hashes]
    /\ UNCHANGED <<strategy, num_workers, blocks, validity_flags, out_rulesets, runs,
                   kernel_writes>>
    /\ GenFrozen

RunDone == \A w \in DOMAIN workers : workers[w].phase = "done"

\* After a run has ended a generator is started again on the same case: the
\* index file and the blocks are there, seen_hashes starts empty.
NextRun ==
    /\ RunDone
    /\ runs + 1 \in GenRunNumbers
    /\ runs' = runs + 1
    /\ strategy' \in Strategies
    /\ num_workers' \in (IF strategy' = "partitioned" THEN RerunWorkerCounts ELSE {1})
    /\ workers' = StartWorkers(strategy', num_workers')
    /\ validity_flags' = <<>> /\ out_rulesets' = <<>>
    /\ UNCHANGED <<index_file, blocks, kernel_writes>>
    /\ GenFrozen

GenNext ==
    \/ GpuKernel
    \/ \E w \in DOMAIN workers : WorkerIterate(w)
    \/ \E w \in DOMAIN workers : WorkerOpenBlock(w)
    \/ \E w \in DOMAIN workers : WorkerWriteBlock(w)
    \/ \E w \in DOMAIN workers : WorkerAppend(w)
    \/ NextRun

GenSpec == GenInit /\ [][GenNext]_vars

----------------------------------------------------------------------------
\* Properties of the generators (GenSpec)

\* The table an index entry refers to: the block at the path of its hash.
EntryTable(entry) == load_block(blocks, entry.ruleset_hash)

\* The candidate the run's strategy forms at index p of its enumeration.
CandidateAt(p) ==
    LET options == OptionsOf(strategy)
    IN  IF strategy = "gpu"
        THEN RulesOf(KernelChoice(p, Len(options), num_transitions), options)
        ELSE RulesOf(ProductChoice(p, Len(options), num_transitions), options)

Indexed(rls) == \E i \in 1..Len(index_file) : index_file[i].ruleset_hash = hash_ruleset(rls)

FirstRunDone == runs = 1 /\ RunDone

HaltingFilter ==
    /\ \A i \in 1..Len(index_file) :
          /\ EntryTable(index_file[i]).raised = ""
          /\ has_halt(EntryTable(index_file[i]).rules)
    /\ FirstRunDone =>
          \A p \in 0..(total_combinations(strategy) - 1) :
              has_halt(CandidateAt(p)) => Indexed(CandidateAt(p))

\* C15: under every generation strategy every index entry refers to a rule
\* table with a Halt cell, and when a run has ended every candidate of its
\* enumeration that has a Halt cell has an index entry.
C15_HaltingFilter == HaltingFilter

\* The same for the first run of the sequential generator and of the
\* partitioned workers.
C15_FilterOnCpu == (runs = 1 /\ strategy # "gpu") => HaltingFilter

IndexHashes == { index_file[i].ruleset_hash : i \in 1..Len(index_file) }
CanonicalEntries == { i \in 1..Len(index_file) : index_file[i].is_canonical }

DedupCounts ==
    /\ Cardinality(IndexHashes) <= Len(index_file)
    /\ Cardinality(DOMAIN blocks) = Cardinality(IndexHashes)
    /\ Cardinality(CanonicalEntries) = Cardinality(IndexHashes)

\* C16: after a generation run into an empty case folder, by any strategy and
\* any number of workers, that appended N index entries with K <= N distinct
\* hashes, exactly K blocks exist and exactly K entries have is_canonical =
\* TRUE.
C16_DedupCounts == FirstRunDone => DedupCounts

\* The same for the runs of a single process.
C16_DedupOneProcess == (FirstRunDone /\ num_workers = 1) => DedupCounts

EnumeratesAll ==
    \A t \in Tables(states, symbols) : has_halt(t) => Indexed(t)

\* C17: when a generation run has ended, every rule table of the case (each
\* cell Halt or a Move with write_symbol in 0..symbols-1, direction 0 or 1,
\* next_state in 0..states-1) that has a Halt cell is in the index, tables
\* with left-moving transitions included.
C17_EnumeratesAll == FirstRunDone => EnumeratesAll

\* The same for the sequential generator.
C17_SequentialEnumeratesAll == (FirstRunDone /\ strategy = "sequential") => EnumeratesAll

HoldsItsTable(h) ==
    LET ld == load_block(blocks, h)
    IN  /\ ld.raised = ""
        /\ hash_ruleset(ld.rules) = h
        /\ json_dumps(ld.rules) = blocks[h].text

\* Two tables of the case have one hash only if they are the same table (a
\* property of hash_ruleset alone, looked at in the first state of a case).
HashDeterminesTable ==
    (runs = 1 /\ workers = StartWorkers(strategy, num_workers)) =>
        \A t1, t2 \in Tables(states, symbols) :
            hash_ruleset(t1) = hash_ruleset(t2) => t1 = t2

\* C18: in every state of the block store, the block at the path of hash h
\* loads to a table t with hash_ruleset(t) = h, re-serializing the loaded
\* table gives the stored text again, and no other table of the case has the
\* hash h.
C18_ContentAddressing ==
    /\ \A h \in DOMAIN blocks : HoldsItsTable(h)
    /\ HashDeterminesTable

\* A save_block call has opened the block of hash h and not yet dumped the
\* table into it.
BeingWritten(h) ==
    \E w \in DOMAIN workers :
        workers[w].phase = "dump" /\ hash_ruleset(RulesAt(workers[w].pos)) = h

\* C18 as amended: every block that no save_block call is in the middle of
\* writing holds a table whose hash is the block's name, loads and re-hashes
\* to that hash, and no other table has the hash; a block between its open
\* and its dump is empty.
C18_ContentAddressingOnceWritten ==
    /\ \A h \in DOMAIN blocks :
          IF BeingWritten(h) THEN blocks[h].text = <<>> \/ HoldsItsTable(h)
          ELSE HoldsItsTable(h)
    /\ HashDeterminesTable

\* C18 witness: a save_block call is between its open and its dump, the
\* store holds a written block of a table with a Move, and the index has an
\* entry for a hash that was in it before.
C18_Witness ==
    /\ \E h \in DOMAIN blocks : BeingWritten(h) /\ blocks[h].text = <<>>
    /\ \E h \in DOMAIN blocks : ~(\A t \in 1..Len(load_block(blocks, h).rules) :
                                     load_block(blocks, h).rules[t] = Halt)
    /\ \E i \in 1..Len(index_file) : ~index_file[i].is_canonical

BlockComplete(store, h) == h \in DOMAIN store /\ store[h].text # <<>>

BlocksKept ==
    /\ \A h \in DOMAIN blocks : h \in DOMAIN blocks'
    /\ \A h \in DOMAIN blocks : BlockComplete(blocks, h) => blocks'[h] = blocks[h]

\* C19: no step of a generator removes a block or changes the file of a block
\* that has been written; in particular save_block called for a hash whose
\* block exists leaves the block store as it is.
C19_WriteOnce == [][BlocksKept]_vars

\* C19 witness: a second run on the case folder has ended in which save_block
\* was called for tables whose blocks the first run had written.
C19_Witness ==
    /\ runs = 2 /\ RunDone
    /\ \E w \in DOMAIN workers :
          /\ workers[w].seen_hashes # {}
          /\ workers[w].seen_hashes \subseteq DOMAIN blocks
    /\ \E i \in 1..Len(index_file) : index_file[i].with_case
    /\ \E i \in 1..Len(index_file) : ~index_file[i].with_case

----------------------------------------------------------------------------
\* Completed and pending (Spec)

\* A batch has been checkpointed, or the run has ended.
BatchBoundary ==
    \/ pc = "simulate" /\ batch_pos = 1 /\ batch_start > 0
    \/ pc = "done"

\* The pool ids the run has still to process.
StillPending ==
    IF batch_start < Len(pending_machines)
    THEN SubSeq(pending_machines, batch_start + 1, Len(pending_machines))
    ELSE <<>>

\* C20: at every batch boundary of simulate_pool the ids in completed together
\* with the ids still to be processed are exactly the ids of the pool, ids
\* whose load or simulation failed included.
C20_CompletedAndPendingCoverPool ==
    BatchBoundary => (Range(completed) \cup Range(StillPending) = Range(pool))

\* The same for the pools in which every machine loads and simulates.
C20_CoverWithoutFailures ==
    (BatchBoundary /\ \A i \in 1..Len(pool) : Succeeds(pool[i])) =>
        (Range(completed) \cup Range(StillPending) = Range(pool))

----------------------------------------------------------------------------
\* The batch loop of simulate_pool (Spec, FairSpec)

\* The loop of simulate_pool is sequential code: unless the process is killed
\* or a write raises, the simulation of the next machine (bounded by
\* max_steps), the bulk write and the checkpoint write each run to their end.
\* The step of SimulateMachine is possible exactly when pc = "simulate" (the
\* loop variable is inside the batch), so its weak fairness is written with
\* that condition in the place of ENABLED.
FairSimulateMachine == []<>(pc # "simulate") \/ []<><<SimulateMachine>>_vars

FairSpec ==
    /\ Spec
    /\ FairSimulateMachine
    /\ WF_vars(WriteResults)
    /\ WF_vars(SaveCheckpoint)

Ceil(a, b) == (a + b - 1) \div b

\* The batches the current run has checkpointed.
BatchesDone == batch_start \div batch_size

SlicesInOrder ==
    /\ Running =>
          /\ pending_machines = PoolMinusLoaded
          /\ batch_start % batch_size = 0
          /\ batch_start < Len(pending_machines)
          /\ LET batch == BatchOf(pending_machines, batch_start, batch_size)
             IN  /\ Len(batch) = IF Len(pending_machines) - batch_start < batch_size
                                 THEN Len(pending_machines) - batch_start
                                 ELSE batch_size
                 /\ \A i \in 1..Len(batch) : batch[i] = pending_machines[batch_start + i]
                 /\ batch_pos - 1 <= Len(batch)
          /\ attempted = Prefix(pending_machines, batch_start + batch_pos - 1)
    /\ pc = "done" =>
          /\ attempted = PoolMinusLoaded
          /\ attempted # <<>> =>
                /\ pending_machines = attempted
                /\ BatchesDone = Ceil(Len(pending_machines), batch_size)

RunEnded == pc \in {"done", "crashed", "aborted"}

\* C22: a run computes pending as the pool ids not in the loaded checkpoint,
\* in pool order, and processes it in consecutive slices of batch_size, the
\* last one possibly shorter; each pending entry is attempted exactly once,
\* and a run that is not killed and whose writes do not raise ends after
\* ceil(|pending| / batch_size) batches.
C22_SlicesAndTermination == []SlicesInOrder /\ (Running ~> RunEnded)

\* C22 witness: a run with two pending entries and batch_size 1 has ended
\* after two batches.
C22_Witness ==
    /\ pc = "done" /\ NoFaults /\ batch_size = 1
    /\ Len(pending_machines) = 2 /\ attempted = pending_machines /\ BatchesDone = 2

\* The ids the checkpoint on disk holds for a run that loads it.
PersistedIds == Range(load_checkpoint(checkpoint_file).completed)

\* A step that simulates a machine of a batch finds on disk the checkpoint of
\* the batch before: completed without what the current batch has added, or
\* the loaded checkpoint in the first batch.
SimulatesAfterCheckpoint ==
    (pc = "simulate" /\ attempted' # attempted) =>
        /\ EntryIds(batch_results) =
              SubSeq(completed, Len(completed) - Len(batch_results) + 1, Len(completed))
        /\ \A i \in 1..Len(batch_results) :
              batch_results[i].machine_id \in
                  Range(BatchOf(pending_machines, batch_start, batch_size))
        /\ IF batch_start = 0
           THEN checkpoint_file.state # "partial" /\ checkpoint_file.ids = loaded
           ELSE checkpoint_file =
                   [state |-> "valid",
                    ids |-> Prefix(completed, Len(completed) - Len(batch_results))]

\* A checkpoint write that succeeds comes after every machine of the batch,
\* writes the whole of completed and keeps every id the file held.
CheckpointAfterBatch ==
    (pc = "checkpoint" /\ pc' \in {"simulate", "done"}) =>
        /\ batch_pos - 1 = Len(BatchOf(pending_machines, batch_start, batch_size))
        /\ checkpoint_file' = [state |-> "valid", ids |-> completed]
        /\ PersistedIds \subseteq PersistedIds'
        /\ pc' = "simulate" => batch_pos' = 1 /\ batch_results' = <<>>

\* C23: batches are processed strictly one at a time: the checkpoint of a
\* batch (completed rewritten in full) is written after all machines of the
\* batch are simulated and before any machine of the next batch is, and each
\* checkpoint written holds every id of the one before.
C23_CheckpointBetweenBatches ==
    [][SimulatesAfterCheckpoint /\ CheckpointAfterBatch]_vars

\* C23 witness: with batch_size 1 the second batch is being simulated while
\* the checkpoint of the first, which added an id, is on disk.
C23_Witness ==
    /\ pc = "simulate" /\ batch_size = 1 /\ batch_start = 1 /\ NoFaults
    /\ checkpoint_file = [state |-> "valid", ids |-> completed]
    /\ Len(completed) = Len(loaded) + 1

\* The ids whose ResultEntries the batches before the current one produced:
\* what the run appended to completed, without the current batch's part.
EarlierBatchIds ==
    SubSeq(completed, Len(loaded) + 1, Len(completed) - Len(batch_results))

\* The last k entries of the results log.
LogTail(log, k) == SubSeq(log, Len(log) - k + 1, Len(log))

\* A kill or a failed write while a batch is in flight keeps the log as it
\* was, possibly with entries of the batch in flight added; the entries of
\* the batches before are all in it.
CrashLosesOnlyInFlight ==
    (Running /\ pc' \in {"crashed", "aborted"}) =>
        /\ IsPrefix(results_log, results_log')
        /\ IsPrefix(EarlierBatchIds, flushed')
        /\ IsPrefix(flushed', SubSeq(completed, Len(loaded) + 1, Len(completed)))
        /\ Len(flushed') <= Len(results_log')
        /\ EntryIds(LogTail(results_log', Len(flushed'))) = flushed'

\* No step on the files of a pool, the start of a resumed run included,
\* rewrites or removes an entry of its results log.
LogKept ==
    (pool_name' = pool_name) =>
        /\ Len(results_log) <= Len(results_log')
        /\ \A i \in 1..Len(results_log) : results_log'[i] = results_log[i]

\* C24: ResultEntries are buffered per batch and flushed once per batch; a
\* crash while a batch is in flight loses at most the entries of that batch:
\* the entries of the batches before it are in the results log, and neither
\* the crash nor the resumed run rewrites or removes them.
C24_CrashLosesOnlyInFlightBatch == [][CrashLosesOnlyInFlight /\ LogKept]_vars

\* C24 witness: with batch_size 1 the run was killed in its second batch after
\* the machine was simulated; the entry of the first batch is in the log, the
\* entry of the second is lost.
C24_Witness ==
    /\ pc = "crashed" /\ batch_size = 1 /\ Len(attempted) = 2
    /\ Succeeds(attempted[1]) /\ Succeeds(attempted[2])
    /\ flushed = <<attempted[1]>> /\ EntryIds(results_log) = <<attempted[1]>>

\* Within the current run no id has more than one ResultEntry flushed and
\* none is handed to the simulator more than once.
OneEntryPerId ==
    \A m \in PoolIds : Count(m, flushed) <= 1 /\ Count(m, Simulated) <= 1

\* C25: within one run of simulate_pool at most one ResultEntry is appended
\* per MachineId and no id is simulated twice, also when the pool file lists
\* the same id on more than one line.
C25_OneEntryPerId == OneEntryPerId

\* The same for the pool files that list no id twice.
C25_DistinctPoolOneEntry == NoRepeats(pool) => OneEntryPerId

----------------------------------------------------------------------------
\* is_canonical and machine ids (GenSpec)

\* A step appends an index entry; the entry, and the process that made it.
AppendsEntry ==
    /\ runs' = runs
    /\ \E w \in DOMAIN workers : workers'[w].machine_counter = workers[w].machine_counter + 1
Appender ==
    CHOOSE w \in DOMAIN workers : workers'[w].machine_counter = workers[w].machine_counter + 1
NewEntry ==
    IF workers[Appender].phase = "append" /\ workers[Appender].offset < Len(index_file)
    THEN index_file'[workers[Appender].offset + 1]
    ELSE index_file'[Len(index_file')]

\* is_canonical of a new entry is "the hash was not in seen_hashes of the
\* process that made it"; the hash is in seen_hashes afterwards, a block is
\* only ever written for a canonical entry, and the block of a canonical entry
\* is in the store when the entry is appended.
CanonicalIsFirstSeen ==
    AppendsEntry =>
        /\ NewEntry.is_canonical <=>
              (NewEntry.ruleset_hash \notin workers[Appender].seen_hashes)
        /\ NewEntry.ruleset_hash \in workers'[Appender].seen_hashes
        /\ (blocks' # blocks) => NewEntry.is_canonical
        /\ NewEntry.is_canonical => NewEntry.ruleset_hash \in DOMAIN blocks'

\* seen_hashes of a process holds the hashes of the tables it has taken up
\* in the current run and written an index entry for.
SeenIsOwnEntries ==
    \A w \in DOMAIN workers :
        workers[w].phase # "kernel" =>
            workers[w].seen_hashes =
                { hash_ruleset(RulesAt(p)) :
                    p \in { q \in workers[w].lo..(workers[w].pos - 1) : TakenUp(q) } }

IndexIds == [i \in 1..Len(index_file) |-> index_file[i].machine_id]

\* The index of the k-th (from 0) candidate with a Halt cell in the
\* enumeration of the run's strategy.
ValidCandidate(k) ==
    CHOOSE p \in 0..(total_combinations(strategy) - 1) :
        /\ has_halt(CandidateAt(p))
        /\ Cardinality({ q \in 0..(p - 1) : has_halt(CandidateAt(q)) }) = k

IdsDenseInOrder ==
    /\ NoRepeats(IndexIds)
    /\ Range(IndexIds) = 0..(Len(index_file) - 1)
    /\ \A i \in 1..Len(index_file) :
          index_file[i].ruleset_hash =
              hash_ruleset(CandidateAt(ValidCandidate(index_file[i].machine_id)))

\* C27: within one generation run, under every strategy and every number of
\* workers, the machine ids written to the index are pairwise distinct and
\* form the gap-free sequence 0, 1, 2, .., assigned to the valid candidates in
\* enumeration order.
C27_IdsDenseInOrder == FirstRunDone => IdsDenseInOrder

\* The same for the runs of one CPU process.
C27_OneProcessIdsDense ==
    (FirstRunDone /\ strategy # "gpu" /\ num_workers = 1) => IdsDenseInOrder

----------------------------------------------------------------------------
\* The two strategies of parallel_ruleset_generator.py (GenSpec)

\* The hashes of the tables with a Halt cell among all tables over the
\* module's transition options.
ParallelHashes ==
    LET options == parallel_prebuilt_transitions(states, symbols)
        Table(p) == RulesOf(ProductChoice(p, Len(options), num_transitions), options)
    IN  { hash_ruleset(Table(p)) :
            p \in { q \in 0..(Len(options) ^ num_transitions - 1) : has_halt(Table(q)) } }

SameExternalResult ==
    /\ IndexHashes = ParallelHashes
    /\ DOMAIN blocks = ParallelHashes
    /\ \A h \in DOMAIN blocks : hash_ruleset(json_load(blocks[h].text)) = h

\* C28: for the same (states, symbols) the partitioned CPU generation, with
\* any number of workers, and the GPU generation produce the same set of rule
\* tables, the same set of hashes and the same set of blocks, and a table has
\* the same hash on both paths.
C28_StrategiesAgree ==
    (FirstRunDone /\ strategy \in {"partitioned", "gpu"}) => SameExternalResult

\* The flags the kernel's threads inside the buffer set.
InBufferFlags ==
    [i \in 1..total_combinations("gpu") |-> IF has_halt(CandidateAt(i - 1)) THEN 1 ELSE 0]

\* The same when no write of a thread outside the buffers has landed on a
\* flag.
C28_AgreeWithoutStrayWrites ==
    (/\ FirstRunDone /\ strategy \in {"partitioned", "gpu"}
     /\ strategy = "gpu" => validity_flags = InBufferFlags) => SameExternalResult

\* The numbers of candidates and of workers the chunks are checked for.
ChunkTotals == 0..12
ChunkWorkers == 1..5

\* The choice indices of the slices form the space [0, total) with each index
\* in exactly one slice, each slice is a range without a hole, and the slices
\* follow each other in worker order.
ChunksPartition(total, nw) ==
    LET c == chunks(total, nw)
    IN  /\ \A p \in 0..(total - 1) :
              Cardinality({ i \in 0..(nw - 1) : p \in c[i].choices }) = 1
        /\ \A i \in 0..(nw - 1) :
              /\ c[i].choices \subseteq 0..(total - 1)
              /\ c[i].choices # {} =>
                    c[i].choices =
                        c[i].start_idx..(c[i].start_idx + Cardinality(c[i].choices) - 1)
              /\ \A j \in 0..(nw - 1) :
                    i < j => \A p \in c[i].choices, q \in c[j].choices : p < q

\* The choice indices worker w has gone through.
ProcessedBy(w) == { p \in 0..(total_combinations(strategy) - 1) :
                      workers[w].lo <= p /\ p < workers[w].pos }

\* A run is at its start: no process has made a step.
RunStart == workers = StartWorkers(strategy, num_workers)

WorkersFollowChunks ==
    strategy = "partitioned" =>
        /\ RunStart => ChunksPartition(total_combinations(strategy), num_workers)
        /\ \A w \in DOMAIN workers :
              ProcessedBy(w) \subseteq
                  chunks(total_combinations(strategy), num_workers)[w - 1].choices
        /\ RunDone =>
              \A p \in 0..(total_combinations(strategy) - 1) :
                  Cardinality({ w \in DOMAIN workers : p \in ProcessedBy(w) }) = 1

\* C29: for every number of candidates and every num_workers >= 1 the chunks
\* handed to the workers are contiguous, pairwise disjoint ranges of the
\* choice-index space whose union is [0, total_combinations): every candidate
\* is processed by exactly one worker.
C29_ChunksPartition ==
    /\ RunStart => \A total \in ChunkTotals, nw \in ChunkWorkers : ChunksPartition(total, nw)
    /\ WorkersFollowChunks

\* C29 witness: a run of three workers over 25 candidates has ended, each
\* worker having gone through a slice of its own.
C29_Witness ==
    /\ strategy = "partitioned" /\ num_workers = 3 /\ RunDone
    /\ total_combinations(strategy) = 25
    /\ \A w \in DOMAIN workers : ProcessedBy(w) # {}

----------------------------------------------------------------------------
\* BatchSpec: the GPU batch driver simulate_gpu of tools/simulate_gpu.py

\* The cases run and, of each, the tables its index may list: tables of two
\* states over two symbols, and of two states over one symbol.
BatchCases == {<<2, 2>>, <<2, 1>>}
BatchTables(ns, nk) ==
    IF nk = 1
    THEN {OneSymbolTable, <<Halt, Halt>>, << <<0, 1, 0>>, <<0, 1, 0>> >>}
    ELSE {LoopTable, HaltTable}
MachineCounts == 1..3
GpuBatchSizes == {1, 2, 3}
GpuStepBudgets == {0, 3}
GpuTapeSizes == {1, 2}
GpuIds == <<"TM_000000", "TM_000001", "TM_000002">>

\* rulesets_gpu: cp.full((num_machines, num_transitions, 3), -1) with
\* num_transitions = len(batch[0]), then every table copied row by row.
rulesets_gpu(b) ==
    [i \in 1..Len(b) |->
        [j \in 1..Len(b[1]) |-> IF j <= Len(b[i]) THEN b[i][j] ELSE <<-1, -1, -1>>]]

\* What thread idx reads at rulesets[idx, rule_idx, .]: the array is one
\* contiguous block without a bounds test, so a rule_idx past the row of
\* machine idx reads the rows of the machines after it, and past the last row
\* memory outside the array.
thread_view(b, i) == Flatten(SubSeq(rulesets_gpu(b), i, Len(b)))

\* The threads of the launch that pass "if idx >= rulesets.shape[0]: return";
\* each writes steps_taken[idx] and halted_flags[idx].
writing_threads(n) == { idx \in 0..(ThreadsLaunched(n) - 1) : ~(idx >= n) }

\* run_batch on a batch of several tables: the entries appended to the
\* results file, one per idx in range(num_machines).
run_batch_entries(b, ids, maxsteps, n, oob) ==
    [i \in 1..Len(b) |->
        LET c == batch_kernel_run(thread_view(b, i), StartCfg(n), maxsteps, n, oob)
        IN  [machine_id |-> ids[i], steps_taken |-> c.steps, halted |-> c.halted]]

\* The call run_batch(batch, batch_ids, ..) and the reset of the two lists.
RunBatch(b, ids) ==
    /\ \E oob \in OobCells :
          results_file' = results_file \o run_batch_entries(b, ids, max_steps, tape_size, oob)
    /\ kernel_writes' = [len |-> Len(b),
                         slots |-> { <<idx, idx>> : idx \in writing_threads(Len(b)) }]
    /\ gpu_batch' = <<>> /\ gpu_batch_ids' = <<>>

BatchInit ==
    /\ \E c \in BatchCases :
          /\ states = c[1] /\ symbols = c[2]
          /\ \E k \in MachineCounts :
                \E tables \in [1..k -> BatchTables(c[1], c[2])] :
                    machines = [i \in 1..k |-> [machine_id |-> GpuIds[i], rules |-> tables[i]]]
    /\ gpu_batch_size \in GpuBatchSizes
    /\ max_steps \in GpuStepBudgets
    /\ tape_size \in GpuTapeSizes
    /\ gpu_pc = "load" /\ gpu_pos = 0
    /\ gpu_batch = <<>> /\ gpu_batch_ids = <<>> /\ results_file = <<>>
    /\ NoLaunch /\ TmIdle
    /\ kind = "none" /\ rules = <<>> /\ sim = StartCfg(1) /\ moves = 0
    /\ halt_read = FALSE
    /\ PoolIdle
    /\ GenIdle

BatchFrozen == UNCHANGED <<max_steps, tape_size, states, symbols, simVars, poolVars, genVars,
                           machines, gpu_batch_size, tmVars>>

\* One pass of "for machine in machines": the block loaded, table and id
\* appended, and the batch run if it has reached batch_size.
LoadMachine ==
    /\ gpu_pc = "load" /\ gpu_pos < Len(machines)
    /\ gpu_pos' = gpu_pos + 1
    /\ LET machine == machines[gpu_pos + 1]
           b == Append(gpu_batch, machine.rules)
           ids == Append(gpu_batch_ids, machine.machine_id)
       IN  IF Len(b) >= gpu_batch_size
           THEN RunBatch(b, ids)
           ELSE /\ gpu_batch' = b /\ gpu_batch_ids' = ids
                /\ UNCHANGED <<results_file, kernel_writes>>
    /\ UNCHANGED gpu_pc
    /\ BatchFrozen

\* After the loop: the final batch, if there is one.
FinalBatch ==
    /\ gpu_pc = "load" /\ gpu_pos = Len(machines)
    /\ gpu_pc' = "done"
    /\ IF gpu_batch # <<>>
       THEN RunBatch(gpu_batch, gpu_batch_ids)
       ELSE UNCHANGED <<gpu_batch, gpu_batch_ids, results_file, kernel_writes>>
    /\ UNCHANGED gpu_pos
    /\ BatchFrozen

BatchNext == LoadMachine \/ FinalBatch

BatchSpec == BatchInit /\ [][BatchNext]_vars

\* The results file holds one entry per machine of the index, in index order
\* with the machine's id, and the entry of a machine is what run_batch gives
\* for the batch of that machine alone.
BatchResultsIndependent ==
    /\ Len(results_file) = Len(machines)
    /\ \A i \in 1..Len(machines) :
          /\ results_file[i].machine_id = machines[i].machine_id
          /\ \A oob \in OobCells :
                LET alone == run_batch(machines[i].rules, max_steps, tape_size, oob)
                IN  /\ alone.status = "returned"
                    /\ results_file[i].steps_taken = alone.steps
                    /\ results_file[i].halted = alone.halted

\* C21: run_batch produces exactly one ResultEntry per input machine, in input
\* order and paired with that machine's id; each machine is simulated from
\* state 0 on its own zeroed tape with the head at tape_size // 2, and its
\* (steps, halted) is the result of simulating that machine alone, whatever
\* the other machines of the batch are.
C21_BatchResultsIndependent == gpu_pc = "done" => BatchResultsIndependent

\* The same for the cases of two symbols.
C21_TwoSymbolBatches == (gpu_pc = "done" /\ symbols = 2) => BatchResultsIndependent

----------------------------------------------------------------------------
\* The writes of the kernels' threads (GenSpec, BatchSpec)

\* Every write of the last launch went to the slot of the writing thread's
\* own index, inside the output buffers.
KernelWritesInBuffer ==
    \A w \in kernel_writes.slots : w[2] = w[1] /\ w[2] < kernel_writes.len

\* C30: in every kernel launch, of the generation kernel and of the
\* simulation kernel, each thread writes only to the output slot of its own
\* index and only if that index is inside the output buffers; the threads of
\* the last block past the end write nothing.
C30_ThreadsWriteOwnSlotInBuffer == KernelWritesInBuffer

\* The same for the launches of simulate_machines_kernel, which returns at
\* once in the threads past the last machine.
C30_SimulationKernelGuarded == (gpu_pc # "idle") => KernelWritesInBuffer

----------------------------------------------------------------------------
\* Same-hash races of save_block

\* The tables process w has written an index entry for in the current run.
EnteredBy(w) == { p \in workers[w].lo..(workers[w].pos - 1) : TakenUp(p) }

\* A block is empty only between the open and the dump of a call; a block
\* that is not empty has the text whose digest is its name (a digest stands
\* for the text digested) and loads to the table of that hash.
BlocksWhole ==
    \A h \in DOMAIN blocks :
        IF blocks[h].text = <<>> THEN BeingWritten(h)
        ELSE blocks[h].text = h /\ HoldsItsTable(h)

FinalBlocksComplete ==
    RunDone =>
        /\ \A h \in DOMAIN blocks : BlockComplete(blocks, h)
        /\ \A w \in DOMAIN workers : \A p \in EnteredBy(w) :
              /\ BlockComplete(blocks, hash_ruleset(RulesAt(p)))
              /\ load_block(blocks, hash_ruleset(RulesAt(p))).rules = RulesAt(p)

\* C31: however the tests, opens and dumps of save_block calls of several
\* workers for one hash interleave, the block of the hash is empty only while
\* one of the calls is between its open and its dump, holds the whole table
\* otherwise, and when the run has ended the store holds for every table
\* entered the one block of its hash with the complete table.
C31_RaceLeavesCompleteBlock == BlocksWhole /\ FinalBlocksComplete

\* C31 witness: two workers have both passed the test and opened the block of
\* one hash, and neither has dumped its table yet.
C31_Witness ==
    \E w1, w2 \in DOMAIN workers :
        /\ w1 # w2
        /\ workers[w1].phase = "dump" /\ workers[w2].phase = "dump"
        /\ hash_ruleset(RulesAt(workers[w1].pos)) = hash_ruleset(RulesAt(workers[w2].pos))

\* A worker has opened, and emptied, a block another worker had written.
C31_WrittenBlockEmptied ==
    \E w \in DOMAIN workers : \E i \in 1..Len(index_file) :
        /\ workers[w].phase = "dump"
        /\ index_file[i].ruleset_hash = hash_ruleset(RulesAt(workers[w].pos))
        /\ blocks[index_file[i].ruleset_hash].text = <<>>

----------------------------------------------------------------------------
\* The index file after a partitioned run

\* The machine id process w gave to the table at index p: its start index
\* plus the number of tables it had entered before.
IdOf(w, p) == workers[w].lo + Cardinality({ q \in EnteredBy(w) : q < p })

RecordsOf(w, p) ==
    { i \in 1..Len(index_file) :
        /\ index_file[i].machine_id = IdOf(w, p)
        /\ index_file[i].ruleset_hash = hash_ruleset(RulesAt(p)) }

OneRecordPerCandidate ==
    /\ \A w \in DOMAIN workers : \A p \in EnteredBy(w) : Cardinality(RecordsOf(w, p)) = 1
    /\ \A i \in 1..Len(index_file) :
          \E w \in DOMAIN workers : \E p \in EnteredBy(w) : i \in RecordsOf(w, p)

\* C32: when a partitioned run into an empty case folder has ended, whatever
\* the order in which the workers wrote to the index file, the index holds
\* for every table with a Halt cell of the enumeration exactly one entry, the
\* one its worker made for it, and no other line.
C32_OneRecordPerCandidate ==
    (runs = 1 /\ strategy = "partitioned" /\ RunDone) => OneRecordPerCandidate

----------------------------------------------------------------------------
\* ruleset_inspect.py --machine_id

\* load_machine_index: machine id -> the last line of the index with that id.
load_machine_index(file, id) ==
    LET hits == { i \in 1..Len(file) : file[i].machine_id = id }
    IN  file[CHOOSE i \in hits : \A j \in hits : j <= i]

\* main with --machine_id: the exception it ends with, "" if none.  The entry
\* of a generator of parallel_ruleset_generator.py has no "states" and no
\* "symbols" key (with_case is false), and entry['states'] raises KeyError.
inspect_main(id) ==
    IF \A i \in 1..Len(index_file) : index_file[i].machine_id # id THEN "ValueError"
    ELSE LET entry == load_machine_index(index_file, id)
         IN  IF ~entry.with_case THEN "KeyError"
             ELSE load_block(blocks, entry.ruleset_hash).raised

\* C35: every index entry written by any generator has the fields states and
\* symbols beside machine_id, ruleset_hash, is_canonical and timestamp, so
\* ruleset_inspect resolving a machine id of the index never fails on a
\* missing field.
C35_EntriesCarryCase ==
    \A i \in 1..Len(index_file) :
        /\ index_file[i].with_case
        /\ inspect_main(index_file[i].machine_id) # "KeyError"

\* The entries of ruleset_generator.py carry the two fields.
C35_SequentialEntriesCarryCase ==
    [][(AppendsEntry /\ strategy = "sequential") => NewEntry.with_case]_vars

----------------------------------------------------------------------------
\* EvalSpec: the evaluator's kernel, simulator/simulator_gpu.py and
\* simulator/evaluator.py

\* One pass of "for step in range(max_steps)" of simulate_batch for one
\* thread idx < tapes.shape[0]: the loop index is c.steps.  A Move whose new
\* head is outside the tape sets halted and leaves the loop with the head
\* outside and the state not updated.
simulate_batch_loop(rls, c, maxsteps, n, oob) ==
    IF ~(c.steps < maxsteps) THEN [c EXCEPT !.status = "returned"]
    ELSE
      LET symbol == c.tape[c.head]
          trans_idx == c.state * 2 + symbol
          cell == IF trans_idx < Len(rls) THEN rls[trans_idx + 1] ELSE oob
          h0 == c.head + (IF cell[2] = 0 THEN -1 ELSE 1)
      IN  IF cell[1] = -1
          THEN [c EXCEPT !.new_symbol = cell[1], !.halted = TRUE, !.status = "returned"]
          ELSE IF h0 < 0 \/ h0 >= n
          THEN [c EXCEPT !.new_symbol = cell[1],
                         !.tape[c.head] = cell[1],
                         !.head = h0,
                         !.halted = TRUE,
                         !.status = "returned"]
          ELSE [c EXCEPT !.new_symbol = cell[1],
                         !.tape[c.head] = cell[1],
                         !.head = h0,
                         !.state = cell[3],
                         !.steps = c.steps + 1]

RECURSIVE simulate_batch_run(_, _, _, _, _)
simulate_batch_run(rls, c, maxsteps, n, oob) ==
    IF c.status # "running" THEN c
    ELSE simulate_batch_run(rls, simulate_batch_loop(rls, c, maxsteps, n, oob), maxsteps, n, oob)

\* evaluate_batch for one machine: a zero tape, the head at tape_size // 2,
\* state 0; only halts[idx] comes back.
evaluate_batch(rls, maxsteps, n, oob) ==
    simulate_batch_run(rls, StartCfg(n), maxsteps, n, oob).halted

\* The cases evaluated: every table of s1_k2 and s2_k2.
EvalShapes == {<<1, 2>>, <<2, 2>>}

EvalInit ==
    /\ kind = "simulate_batch"
    /\ \E shape \in EvalShapes :
          /\ states = shape[1] /\ symbols = shape[2]
          /\ rules \in Tables(shape[1], shape[2])
    /\ tape_size \in 1..SimMaxTape
    /\ max_steps \in 0..SimMaxSteps
    /\ sim = StartCfg(tape_size)
    /\ moves = 0
    /\ halt_read = FALSE
    /\ PoolIdle
    /\ GenIdle
    /\ DriverIdle /\ NoLaunch /\ TmIdle

EvaluatorStep ==
    /\ kind = "simulate_batch" /\ sim.status = "running"
    /\ \E oob \in OobCells : sim' = simulate_batch_loop(rules, sim, max_steps, tape_size, oob)
    /\ History(sim, sim')
    /\ UNCHANGED <<max_steps, tape_size, states, symbols, kind, rules, poolVars, genVars,
                   driverVars, kernel_writes, tmVars>>

EvalSpec == EvalInit /\ [][EvaluatorStep]_vars

\* A Move read by the evaluator's kernel that would take the head past a tape
\* edge.
EvalMovesPastEdge ==
    /\ sim.status = "running" /\ sim.steps < max_steps
    /\ CellRead # Halt
    /\ \/ CellRead[2] = 0 /\ sim.head = 0
       \/ CellRead[2] # 0 /\ sim.head = tape_size - 1

EvalEdgeStepClamps ==
    EvalMovesPastEdge =>
        /\ sim'.head = sim.head
        /\ sim'.state = CellRead[3]
        /\ sim'.status = "running"
        /\ sim'.halted = FALSE

\* C33: in simulate_batch a Move past a tape edge is a clamp: the head stays
\* within 0..tape_size-1 in every state, the step leaves the head at the edge
\* and the machine running in the state of the Move, and halted is true only
\* if a Halt cell was read.
C33_EvaluatorClamps ==
    /\ [](0 <= sim.head /\ sim.head <= tape_size - 1)
    /\ [][EvalEdgeStepClamps]_vars
    /\ [](sim.halted => halt_read)

\* What the kernel does instead: a Move past an edge ends the run with halted
\* true, the head one cell outside the tape and the state not updated; every
\* other step leaves the head inside.
EvalEdgeStepHalts ==
    /\ EvalMovesPastEdge =>
          /\ sim'.halted /\ sim'.status = "returned"
          /\ sim'.head \in {-1, tape_size}
          /\ sim'.state = sim.state
          /\ ~halt_read'
    /\ (sim.status = "running" /\ ~EvalMovesPastEdge) =>
          (0 <= sim'.head /\ sim'.head <= tape_size - 1)

C33_EvaluatorHaltsAtEdge == [][EvalEdgeStepHalts]_vars

----------------------------------------------------------------------------
\* TmSpec: one TuringMachine object of simulator/turing_machine.py, built from
\* a rule table with add_transition and driven with step, run and reset

\* A dict with key k set to v, and with key k deleted.
Put(dict, k, v) == [x \in DOMAIN dict \cup {k} |-> IF x = k THEN v ELSE dict[x]]
Del(dict, k) == [x \in DOMAIN dict \ {k} |-> dict[x]]

add_transition(self, state, symbol, new_symbol, direction, new_state) ==
    [self EXCEPT !.transitions =
        Put(self.transitions, <<state, symbol>>, <<new_symbol, direction, new_state>>)]

step_mutant_no_guard(self) ==
    LET current_symbol == IF self.head \in DOMAIN self.tape THEN self.tape[self.head] ELSE 0
        key == <<self.current_state, current_symbol>>
    IN  IF key \notin DOMAIN self.transitions THEN [self EXCEPT !.halted = TRUE]
        ELSE LET new_symbol == self.transitions[key][1]
                 direction == self.transitions[key][2]
                 new_state == self.transitions[key][3]
             IN  [self EXCEPT
                    !.tape = IF new_symbol = 0 /\ self.head \in DOMAIN self.tape
                             THEN Del(self.tape, self.head)
                             ELSE Put(self.tape, self.head, new_symbol),
                    !.head = self.head + (IF direction = "R" THEN 1 ELSE -1),
                    !.current_state = new_state]

\* step(): nothing if halted; the symbol under the head (0 where the tape dict
\* has no key); halted if the dict of transitions has no key for (state,
\* symbol); else the write (a 0 deletes the cell's key if there is one, and is
\* stored otherwise), the move and the new state.
step(self) ==
    IF self.halted THEN self
    ELSE
      LET current_symbol == IF self.head \in DOMAIN self.tape THEN self.tape[self.head] ELSE 0
          key == <<self.current_state, current_symbol>>
      IN  IF key \notin DOMAIN self.transitions THEN [self EXCEPT !.halted = TRUE]
          ELSE LET new_symbol == self.transitions[key][1]
                   direction == self.transitions[key][2]
                   new_state == self.transitions[key][3]
               IN  [self EXCEPT
                      !.tape = IF new_symbol = 0 /\ self.head \in DOMAIN self.tape
                               THEN Del(self.tape, self.head)
                               ELSE Put(self.tape, self.head, new_symbol),
                      !.head = self.head + (IF direction = "R" THEN 1 ELSE -1),
                      !.current_state = new_state]

\* run(max_steps): "while not self.halted and steps < max_steps: self.step();
\* steps += 1", then "return steps".  The pass in which step() finds no
\* transition and sets halted is counted.
RECURSIVE run_loop(_, _, _)
run_loop(self, steps, maxsteps) ==
    IF ~self.halted /\ steps < maxsteps THEN run_loop(step(self), steps + 1, maxsteps)
    ELSE [self |-> self, steps |-> steps]

run(self, maxsteps) == run_loop(self, 0, maxsteps)

reset(self) ==
    [self EXCEPT !.tape = <<>>, !.head = 0, !.current_state = 0, !.halted = FALSE]

\* serialize's cell order and direction bits: the cell of (state, symbol) is
\* cell state * num_symbols + symbol, dir_bit 0 is 'L'.
CellKey(k) == <<(k - 1) \div symbols, (k - 1) % symbols>>
Direction(dir_bit) == IF dir_bit = 0 THEN "L" ELSE "R"

\* The machine built from a table: one add_transition per cell that is not
\* Halt, the Halt cells left undefined.
BuiltFrom(rls) ==
    LET moves_of == { k \in 1..Len(rls) : rls[k] # Halt }
    IN  [key \in { CellKey(k) : k \in moves_of } |->
            LET k == CHOOSE c \in moves_of : CellKey(c) = key
            IN  <<rls[k][1], Direction(rls[k][2]), rls[k][3]>>]

\* The tables machines are built from: every table of s1_k2, and the s2_k2
\* tables made of four of its options.
TmOptions == {Halt, <<1, 1, 1>>, <<1, 0, 0>>, <<0, 1, 0>>}
TmTables(num_states) ==
    IF num_states = 1 THEN Tables(1, 2) ELSE [1..4 -> TmOptions]

\* The passes of step() followed between two resets.
TmMaxMoves == 3

Fresh(self) ==
    self.tape = <<>> /\ self.head = 0 /\ self.current_state = 0 /\ ~self.halted

TmInit ==
    /\ tm = TmNew /\ tm_moved = 0 /\ tm_returned = NoRun
    /\ states \in {1, 2} /\ symbols = 2
    /\ rules \in TmTables(states)
    /\ max_steps = 0 /\ tape_size = 1
    /\ kind = "none" /\ sim = StartCfg(1) /\ moves = 0 /\ halt_read = FALSE
    /\ PoolIdle
    /\ GenIdle
    /\ DriverIdle /\ NoLaunch

TmFrozen == UNCHANGED <<max_steps, tape_size, states, symbols, simVars, poolVars, genVars,
                        driverVars, kernel_writes>>

\* add_transition for a cell of the table that is not Halt.
AddTransition ==
    /\ \E k \in 1..Len(rules) :
          /\ rules[k] # Halt
          /\ tm' = add_transition(tm, CellKey(k)[1], CellKey(k)[2],
                                  rules[k][1], Direction(rules[k][2]), rules[k][3])
    /\ UNCHANGED <<tm_moved, tm_returned>>
    /\ TmFrozen

Step ==
    /\ tm_moved < TmMaxMoves
    /\ tm' = step(tm)
    /\ tm_moved' = tm_moved + 1
    /\ UNCHANGED tm_returned
    /\ TmFrozen

Run ==
    /\ \E maxsteps \in 0..(TmMaxMoves - tm_moved) :
          LET r == run(tm, maxsteps)
          IN  /\ tm' = r.self
              /\ tm_moved' = tm_moved + r.steps
              /\ tm_returned' = [max_steps |-> maxsteps, steps |-> r.steps,
                                 halted |-> r.self.halted,
                                 whole |-> (Fresh(tm) /\ tm.transitions = BuiltFrom(rules))]
    /\ TmFrozen

Reset ==
    /\ tm' = reset(tm)
    /\ tm_moved' = 0
    /\ UNCHANGED tm_returned
    /\ TmFrozen

TmNext == AddTransition \/ Step \/ Run \/ Reset

TmSpec == TmInit /\ [][TmNext]_vars

\* The first run(max_steps) of a machine built from the whole table, against
\* simulate_single_cpu on the table with the same max_steps and a tape of
\* 2 * max_steps + 1 cells, on which no Move of the run goes past an edge.
CpuOnWideTape == simulate_single_cpu(rules, tm_returned.max_steps, 2 * tm_returned.max_steps + 1)

\* C34: a TuringMachine built from a table (Halt cells left undefined, zero
\* tape) returns from run(max_steps) the step count of simulate_single_cpu
\* with the same max_steps, and ends halted iff simulate_single_cpu reports
\* halted, whenever the run reaches no tape edge.
C34_RunAgreesWithCpu ==
    tm_returned.whole =>
        /\ CpuOnWideTape.status = "returned"
        /\ tm_returned.steps = CpuOnWideTape.steps
        /\ tm_returned.halted = CpuOnWideTape.halted

\* What holds instead: the halting outcome is the same, and run() returns one
\* more than simulate_single_cpu when the machine halts, the count of
\* simulate_single_cpu otherwise.
C34_RunCountsHaltingPass ==
    tm_returned.whole =>
        /\ CpuOnWideTape.status = "returned"
        /\ tm_returned.halted = CpuOnWideTape.halted
        /\ tm_returned.steps = CpuOnWideTape.steps + (IF tm_returned.halted THEN 1 ELSE 0)

\* A halted machine: step() and run() leave the object as it is, and run()
\* returns 0.
HaltedAbsorbing ==
    tm.halted =>
        /\ step(tm) = tm
        /\ \A maxsteps \in 0..TmMaxMoves : run(tm, maxsteps) = [self |-> tm, steps |-> 0]

ResetRestores ==
    /\ reset(tm).tape = <<>> /\ reset(tm).head = 0 /\ reset(tm).current_state = 0
    /\ ~reset(tm).halted
    /\ reset(tm).transitions = tm.transitions

CallsOnHalted ==
    /\ (tm.halted /\ (Step \/ Run)) => tm' = tm
    /\ Reset => tm' = [TmNew EXCEPT !.transitions = tm.transitions]

\* C36: once halted is true, step() changes none of tape, head, current_state
\* and halted, and every sequence of step() and run() calls leaves the
\* configuration as it is, until reset(); reset() gives the empty tape, head
\* 0, state 0 and halted false and leaves the transitions as they are.
C36_HaltedAbsorbingUntilReset ==
    /\ []HaltedAbsorbing
    /\ []ResetRestores
    /\ [][CallsOnHalted]_vars

\* C36 witness: a machine that has moved and written has halted, run() has
\* been called on it in that state and has returned 0, and the key it halted
\* on has a transition by now.
C36_Witness ==
    /\ tm.halted /\ tm.tape # <<>> /\ tm_moved > 1
    /\ tm_returned.max_steps > 0 /\ tm_returned.steps = 0
    /\ <<tm.current_state, IF tm.head \in DOMAIN tm.tape THEN tm.tape[tm.head] ELSE 0>>
           \in DOMAIN tm.transitions

====
